---- MODULE Spec2Model ----
(***************************************************************************)
(* rf-destaques: the classification-and-normalization pipeline and the     *)
(* Top-N selection engine of the four dashboard scripts                    *)
(*   src/rf_destques.py, src/rf_destaques.py, src/rf_destaques_2.py,       *)
(*   src/rf_destaques3.py.                                                 *)
(*                                                                         *)
(* Text is a sequence of one-character strings.  A spreadsheet cell is a   *)
(* record: a text cell, a native int, a native float or an empty cell.     *)
(* A number is the exact decimal m / 10^e, kept in lowest terms of e.      *)
(* A parser's null result (None, NaN) is the record None; an exception     *)
(* that leaves the function is the record Raise.                           *)
(***************************************************************************)
EXTENDS Integers, Sequences, FiniteSets, TLC

VARIABLES
    variant,    \* which script runs: "destques", "destaques", "destaques3"
    col,        \* SpecParse: the column (a sequence of cells) handed to a helper
    fn,         \* SpecParse: the helper applied last ("none" before any)
    out,        \* SpecParse: what the helper returned, one entry per cell
    rows,       \* Spec: the data rows of the sheet, in sheet order
    today,      \* Spec: date.today(), as a day number
    has_prazo,  \* Spec: whether col_prazo was resolved
    pc,         \* Spec: position in the script
    df,         \* Spec: the data frame, a sequence of records
    top_n,      \* Spec: the "Top N por bloco" setting
    blocks,     \* Spec: the blocks computed so far, in loop order
    header,     \* SpecCols: the column names of the frame, in sheet order
    candidates, \* SpecCols: the aliases handed to find_col, in priority order
    found,      \* SpecCols: what find_col returned (<<"pending">> before the call)
    workbook,   \* SpecIngest: the sheet names of the uploaded workbook
    resolved,   \* SpecIngest: per sheet, the column roles find_col resolved
    shown,      \* SpecIngest: the outputs rendered so far, in order
    failure,    \* SpecIngest: "none", or how the failure was reported
    use_rating_filter,  \* the "Aplicar rating minimo" checkbox
    rating_min,         \* the "Rating minimo" text
    has_rating,         \* whether col_rating was resolved
    use_min_app_filter, \* the "Filtrar por aplicacao minima maxima" checkbox
    max_min_app,        \* the "Aplicacao minima maxima (R$)" number
    warnings,           \* the warnings surfaced by the run
    msg,                \* the WhatsApp message built by the run
    previous,           \* what the run before this one showed, <<>> on the first run
    runs,               \* the number of runs of the script on the uploaded file
    ws,                 \* the worksheet's rows, TRUE for a row with a value
    position,           \* the number of worksheet rows iter_rows has yielded
    empty_streak,       \* the reader's count of blank rows in a row
    data,               \* the worksheet rows ingested
    mostrar_apenas_blocos_com_ativos,  \* the sidebar's "Mostrar apenas blocos com ativos"
    groups_dict,        \* the configured groups, in the order of the secrets
    participants,       \* per group, the phones its metadata lists
    messages_to_send,   \* the messages of the package
    mention_all_enabled,\* the sidebar's "Ativar mencao de participantes"
    mention_groups,     \* the groups selected for mention
    max_mentions,       \* the sidebar's "Max. mencoes por mensagem"
    gi,                 \* the outer loop's position in groups_dict
    mi,                 \* the inner loop's position in messages_to_send
    mentioned_list,     \* the phones to mention in the group at hand, or None
    used_mentions,      \* whether the group at hand gets mentions
    group_results,      \* the results of the group at hand
    all_results,        \* one entry per group done
    posted              \* the send-text requests made, in order

parseVars == <<col, fn, out>>
pipeVars == <<rows, today, has_prazo, pc, df, top_n, blocks>>
colsVars == <<header, candidates, found>>
runVars == <<workbook, resolved, shown, failure>>
settingVars == <<use_rating_filter, rating_min, has_rating, use_min_app_filter, max_min_app,
                 mostrar_apenas_blocos_com_ativos>>
sendVars == <<groups_dict, participants, messages_to_send, mention_all_enabled, mention_groups,
              max_mentions, gi, mi, mentioned_list, used_mentions, group_results, all_results,
              posted>>
rerunVars == <<msg, previous, runs>>
readerVars == <<ws, position, empty_streak, data>>
vars == <<variant, parseVars, pipeVars, colsVars, runVars, settingVars, warnings, rerunVars,
          readerVars, sendVars>>

\* no column detection under way
ColsIdle == header = <<>> /\ candidates = <<>> /\ found = <<"off">>

\* no ingestion under way
RunIdle == workbook = {} /\ resolved = <<>> /\ shown = <<>> /\ failure = "none"

\* the optional filters as the sidebar shows them at first, on a sheet with
\* no rating column, and no warning surfaced
FiltersOff ==
    /\ use_rating_filter = FALSE
    /\ rating_min = <<"A", "-">>
    /\ has_rating = FALSE
    /\ use_min_app_filter = FALSE
    /\ max_min_app = 0
    /\ mostrar_apenas_blocos_com_ativos = TRUE
    /\ warnings = {}

\* the first run of the script on the file, its message not built yet
RerunIdle == msg = <<>> /\ previous = <<>> /\ runs = 1

\* mentioned_list = None
NoMentions == [is_none |-> TRUE, phones |-> <<>>]

\* no send under way: no group configured, the mention widgets as the
\* sidebar shows them at first
SendIdle ==
    /\ groups_dict = <<>> /\ participants = <<>> /\ messages_to_send = <<>>
    /\ mention_all_enabled = FALSE /\ mention_groups = {} /\ max_mentions = 50
    /\ gi = 0 /\ mi = 0 /\ mentioned_list = NoMentions /\ used_mentions = FALSE
    /\ group_results = <<>> /\ all_results = <<>> /\ posted = <<>>

\* no worksheet being read
ReaderIdle == ws = <<>> /\ position = 0 /\ empty_streak = 0 /\ data = <<>>

(***************************************************************************)
(* Bounds of the model                                                     *)
(***************************************************************************)
\* longest enumerated text cell
MaxLen == 4
\* most tokens in an enumerated indexer text
MaxTokens == 2
\* native int cells range over -MaxNeg .. MaxDays
MaxNeg == 2
MaxDays == 1082
\* most data rows in a sheet
MaxRows == 2
\* largest "Top N por bloco" tried
MaxTopN == 2
\* the enumerated rates are m / 10^e, m up to MaxMant and e up to MaxFrac
MaxMant == 250
MaxFrac == 3
\* most columns in an enumerated header row
MaxCols == 3
\* most runs of the script on one uploaded file
MaxRuns == 2
\* most groups in the secrets
MaxGroups == 2
\* "Max. mencoes por mensagem" ranges over 0..MaxMentions
MaxMentions == 2
\* a worksheet is up to MaxData data rows, up to MaxBlank blank rows, up to
\* MaxData data rows, a second run of blank rows and up to one data row
MaxData == 1
MaxBlank == 21

Variants == {"destques", "destaques", "destaques3"}

(***************************************************************************)
(* Values                                                                  *)
(***************************************************************************)
None == [t |-> "none"]
Raise == [t |-> "raise"]

RECURSIVE Pow10(_)
Pow10(k) == IF k = 0 THEN 1 ELSE 10 * Pow10(k - 1)

\* the number m / 10^e with no trailing zero in the fraction
RECURSIVE Num(_, _)
Num(m, e) ==
    IF e > 0 /\ m % 10 = 0 THEN Num(m \div 10, e - 1)
    ELSE [t |-> "num", m |-> m, e |-> e]

IsNum(v) == v.t = "num"
IsNull(v) == v.t = "none"

\* a <= b on numbers
NumLe(a, b) == a.m * Pow10(b.e) <= b.m * Pow10(a.e)
NumLt(a, b) == a.m * Pow10(b.e) < b.m * Pow10(a.e)

(***************************************************************************)
(* Cells                                                                   *)
(***************************************************************************)
Text(s) == [t |-> "text", s |-> s]
IntCell(n) == [t |-> "int", m |-> n, e |-> 0]
FloatCell(m, e) == [t |-> "float", m |-> m, e |-> e]

IsNative(c) == c.t \in {"int", "float"}

\* float(x) of a native number
PyFloat(c) == Num(c.m, c.e)

(***************************************************************************)
(* Characters and Python's str methods                                     *)
(***************************************************************************)
DigitChars == <<"0", "1", "2", "3", "4", "5", "6", "7", "8", "9">>
Digits == {DigitChars[i] : i \in 1..10}
DigitVal(c) == (CHOOSE i \in 1..10 : DigitChars[i] = c) - 1

\* the accented letters of the scripts' tests, each one character of a text
E_ACUTE == "E'"
e_acute == "e'"
O_ACUTE == "O'"
o_acute == "o'"

LowerChars ==
    <<"a", "b", "c", "d", "e", "f", "i", "l", "m", "n", "o", "p", "r", "s", "t", "x",
      "y", "z", e_acute, o_acute>>
UpperChars ==
    <<"A", "B", "C", "D", "E", "F", "I", "L", "M", "N", "O", "P", "R", "S", "T", "X",
      "Y", "Z", E_ACUTE, O_ACUTE>>

UpperChar(c) ==
    IF \E i \in 1..Len(LowerChars) : LowerChars[i] = c
    THEN UpperChars[CHOOSE i \in 1..Len(LowerChars) : LowerChars[i] = c]
    ELSE c

\* str.upper()
Upper(s) == [i \in 1..Len(s) |-> UpperChar(s[i])]

\* str.lower(), on the same letters
LowerChar(c) ==
    IF \E i \in 1..Len(UpperChars) : UpperChars[i] = c
    THEN LowerChars[CHOOSE i \in 1..Len(UpperChars) : UpperChars[i] = c]
    ELSE c

Lower(s) == [i \in 1..Len(s) |-> LowerChar(s[i])]

\* whether pat occurs in s at position i
MatchAt(s, pat, i) ==
    /\ i + Len(pat) - 1 <= Len(s)
    /\ \A k \in 1..Len(pat) : s[i + k - 1] = pat[k]

\* pat in s
Contains(s, pat) == \E i \in 1..(Len(s) + 1) : MatchAt(s, pat, i)

\* s.replace(pat, rep), pat not empty: leftmost occurrences, not overlapping
RECURSIVE ReplaceFrom(_, _, _, _)
ReplaceFrom(s, pat, rep, i) ==
    IF i > Len(s) THEN <<>>
    ELSE IF MatchAt(s, pat, i) THEN rep \o ReplaceFrom(s, pat, rep, i + Len(pat))
    ELSE <<s[i]>> \o ReplaceFrom(s, pat, rep, i + 1)

Replace(s, pat, rep) == ReplaceFrom(s, pat, rep, 1)

\* s.strip()
RECURSIVE LStrip(_)
LStrip(s) == IF s # <<>> /\ Head(s) = " " THEN LStrip(Tail(s)) ELSE s

RECURSIVE RStrip(_)
RStrip(s) ==
    IF s # <<>> /\ s[Len(s)] = " " THEN RStrip(SubSeq(s, 1, Len(s) - 1)) ELSE s

Strip(s) == RStrip(LStrip(s))

\* the decimal digits of n >= 0
RECURSIVE NatStr(_)
NatStr(n) ==
    IF n < 10 THEN <<DigitChars[n + 1]>>
    ELSE NatStr(n \div 10) \o <<DigitChars[(n % 10) + 1]>>

\* n as exactly k digits, zero padded on the left
RECURSIVE PadStr(_, _)
PadStr(n, k) ==
    IF k = 0 THEN <<>> ELSE PadStr(n \div 10, k - 1) \o <<DigitChars[(n % 10) + 1]>>

Abs(n) == IF n < 0 THEN -n ELSE n

\* str(x) of a cell: "None" for an empty cell, the digits of an int, the
\* shortest repr of a float ("110.0", "0.12")
PyStr(c) ==
    CASE c.t = "text" -> c.s
      [] c.t = "none" -> <<"N", "o", "n", "e">>
      [] c.t = "int" -> (IF c.m < 0 THEN <<"-">> ELSE <<>>) \o NatStr(Abs(c.m))
      [] c.t = "float" ->
            (IF c.m < 0 THEN <<"-">> ELSE <<>>)
            \o NatStr(Abs(c.m) \div Pow10(c.e))
            \o <<".">>
            \o (IF c.e = 0 THEN <<"0">> ELSE PadStr(Abs(c.m) % Pow10(c.e), c.e))

(***************************************************************************)
(* Column detection                                                        *)
(***************************************************************************)
\* what find_col returns when no header matches
NoCol == <<"None">>

\* cand_l == c_l, cand_l in c_l, or either of the two
Matches(how, cand_l, c_l) ==
    CASE how = "exact" -> cand_l = c_l
      [] how = "in" -> Contains(c_l, cand_l)
      [] how = "exact or in" -> cand_l = c_l \/ Contains(c_l, cand_l)

\* the first header of hs, in sheet order, that matches cand
RECURSIVE FirstMatch(_, _, _)
FirstMatch(hs, cand, how) ==
    IF hs = <<>> THEN NoCol
    ELSE IF Matches(how, Lower(cand), Lower(Head(hs))) THEN <<"col", Head(hs)>>
    ELSE FirstMatch(Tail(hs), cand, how)

\* find_col of rf_destques.py: per alias, a pass for an exact match and then
\* a pass for a substring match
RECURSIVE find_col_destques(_, _)
find_col_destques(hs, cands) ==
    IF cands = <<>> THEN NoCol
    ELSE LET exact == FirstMatch(hs, Head(cands), "exact")
             part == FirstMatch(hs, Head(cands), "in")
         IN IF exact # NoCol THEN exact
            ELSE IF part # NoCol THEN part
            ELSE find_col_destques(hs, Tail(cands))

\* find_col of rf_destaques.py, rf_destaques_2.py and rf_destaques3.py: per
\* alias, one pass that takes the first header equal to or containing it
RECURSIVE find_col(_, _)
find_col(hs, cands) ==
    IF cands = <<>> THEN NoCol
    ELSE LET hit == FirstMatch(hs, Head(cands), "exact or in")
         IN IF hit # NoCol THEN hit ELSE find_col(hs, Tail(cands))

FindColOf(v, hs, cands) ==
    IF v = "destques" THEN find_col_destques(hs, cands) ELSE find_col(hs, cands)

(***************************************************************************)
(* Regular-expression searches of the parsers                              *)
(***************************************************************************)
IsDigit(c) == c \in Digits

\* re.sub(r"\D", "", t): the digits of a text, in order
RECURSIVE OnlyDigits(_)
OnlyDigits(t) ==
    IF t = <<>> THEN <<>>
    ELSE (IF IsDigit(Head(t)) THEN <<Head(t)>> ELSE <<>>) \o OnlyDigits(Tail(t))

\* where "-?\d" can start: a digit, or "-" followed by a digit
StartsNumeral(s, i) ==
    \/ IsDigit(s[i])
    \/ s[i] = "-" /\ i + 1 <= Len(s) /\ IsDigit(s[i + 1])

HasNumeral(s) == \E i \in 1..Len(s) : StartsNumeral(s, i)

\* re.search scans from the left: the first position where the pattern matches
NumStart(s) ==
    CHOOSE i \in 1..Len(s) :
        StartsNumeral(s, i) /\ \A k \in 1..(i - 1) : ~StartsNumeral(s, k)

\* last index of the greedy run of characters of set cs that starts at i
RECURSIVE RunEnd(_, _, _)
RunEnd(s, i, cs) ==
    IF i + 1 <= Len(s) /\ s[i + 1] \in cs THEN RunEnd(s, i + 1, cs) ELSE i

\* the match of r"(-?\d+(\.\d+)?)", or <<>> when there is none
ExtractNumeral(s) ==
    IF ~HasNumeral(s) THEN <<>>
    ELSE LET i == NumStart(s)
             d == IF s[i] = "-" THEN i + 1 ELSE i
             j == RunEnd(s, d, Digits)
             k == IF j + 2 <= Len(s) /\ s[j + 1] = "." /\ IsDigit(s[j + 2])
                  THEN RunEnd(s, j + 2, Digits)
                  ELSE j
         IN SubSeq(s, i, k)

\* the match of r"(-?\d[\d\.,]*)", or <<>> when there is none
ExtractRateRun(s) ==
    IF ~HasNumeral(s) THEN <<>>
    ELSE LET i == NumStart(s)
             d == IF s[i] = "-" THEN i + 1 ELSE i
         IN SubSeq(s, i, RunEnd(s, d, Digits \cup {".", ","}))

RECURSIVE CountChar(_, _)
CountChar(s, c) ==
    IF s = <<>> THEN 0
    ELSE (IF Head(s) = c THEN 1 ELSE 0) + CountChar(Tail(s), c)

RECURSIVE DigitsVal(_)
DigitsVal(s) ==
    IF s = <<>> THEN 0 ELSE 10 * DigitsVal(SubSeq(s, 1, Len(s) - 1)) + DigitVal(s[Len(s)])

\* float(num) for num made of an optional "-", a digit, then digits and dots:
\* a ValueError when it holds more than one dot
PyFloatStr(num) ==
    IF CountChar(num, ".") > 1 THEN Raise
    ELSE LET neg == Head(num) = "-"
             body == IF neg THEN Tail(num) ELSE num
             ds == Replace(body, <<".">>, <<>>)
             dot == IF Contains(body, <<".">>)
                    THEN CHOOSE i \in 1..Len(body) : body[i] = "."
                    ELSE Len(body) + 1
             mag == DigitsVal(ds)
         IN Num(IF neg THEN -mag ELSE mag, Len(body) - dot + (IF dot > Len(body) THEN 1 ELSE 0))

(***************************************************************************)
(* Field parsers                                                           *)
(***************************************************************************)
\* pd.api.types.is_numeric_dtype of a column built from the cells
is_numeric_dtype(s) ==
    /\ \A i \in 1..Len(s) : s[i].t \in {"int", "float", "none"}
    /\ \E i \in 1..Len(s) : IsNative(s[i])

\* to_numeric_text with the two replacements in the other order
to_numeric_text_comma_first(c) ==
    LET s1 == Strip(PyStr(c))
        s2 == Replace(s1, <<",">>, <<".">>)
        s3 == Replace(s2, <<".">>, <<>>)
        ex == ExtractNumeral(s3)
    IN IF ex = <<>> THEN None ELSE PyFloatStr(ex)

\* the text branch of to_numeric_series on one cell
to_numeric_text(c) ==
    LET s1 == Strip(PyStr(c))
        s2 == Replace(s1, <<".">>, <<>>)
        s3 == Replace(s2, <<",">>, <<".">>)
        ex == ExtractNumeral(s3)
    IN IF ex = <<>> THEN None ELSE PyFloatStr(ex)

\* to_numeric_series of the four scripts (the same code in each)
to_numeric_series(s) ==
    IF is_numeric_dtype(s)
    THEN [i \in 1..Len(s) |-> IF IsNative(s[i]) THEN PyFloat(s[i]) ELSE None]
    ELSE [i \in 1..Len(s) |-> to_numeric_text(s[i])]

\* the text of a rate cell before the search, rf_destaques.py line 77
RateText(x) ==
    Replace(Replace(Upper(PyStr(x)), <<"%">>, <<>>), <<" ">>, <<>>)

\* lines 81-85: the separators of the matched run
RateSeparators(num) ==
    IF Contains(num, <<".">>) /\ Contains(num, <<",">>)
    THEN Replace(Replace(num, <<".">>, <<>>), <<",">>, <<".">>)
    ELSE IF Contains(num, <<",">>) THEN Replace(num, <<",">>, <<".">>)
    ELSE num

\* parse_rate_value of rf_destaques.py and rf_destaques_2.py: float(num) unguarded
parse_rate_value(x) ==
    IF x.t = "none" THEN None
    ELSE IF IsNative(x) THEN PyFloat(x)
    ELSE LET num == ExtractRateRun(RateText(x))
         IN IF num = <<>> THEN None ELSE PyFloatStr(RateSeparators(num))

\* parse_rate_value of rf_destaques3.py: float(num) inside try/except
parse_rate_value_v3(x) ==
    LET r == parse_rate_value(x) IN IF r = Raise THEN None ELSE r

\* the text of a rate cell before the search, rf_destques.py lines 86-93
RateTextDestques(x) ==
    LET s0 == Upper(Strip(PyStr(x)))
        s1 == Replace(s0, <<"%">>, <<>>)
        s2 == Replace(s1, <<"A", ".", "A", ".">>, <<>>)
        s3 == Replace(s2, <<"A", "A">>, <<>>)
        s4 == Replace(s3, <<"A", " ", "A">>, <<>>)
        s5 == Replace(s4, <<" ">>, <<>>)
        s6 == Replace(s5, <<".">>, <<>>)
    IN Replace(s6, <<",">>, <<".">>)

\* parse_rate_value of rf_destques.py: no branch for native numbers
parse_rate_value_destques(x) ==
    IF x.t = "none" THEN None
    ELSE LET ex == ExtractNumeral(RateTextDestques(x))
         IN IF ex = <<>> THEN None
            ELSE LET r == PyFloatStr(ex) IN IF r = Raise THEN None ELSE r

\* the parse_rate_value of script v
ParseRateOf(v, x) ==
    CASE v = "destaques" -> parse_rate_value(x)
      [] v = "destaques3" -> parse_rate_value_v3(x)
      [] v = "destques" -> parse_rate_value_destques(x)

(***************************************************************************)
(* Classifiers                                                             *)
(***************************************************************************)
\* the labels of the scripts, written without their accents
Label(x) == [t |-> "label", v |-> x]

POS_CDI == Label("Pos (CDI)")
PRE == Label("Pre")
IPCA == Label("IPCA")
CURTO == Label("Curto (ate 360d)")
MEDIO == Label("Medio (361 a 1080d)")
LONGO == Label("Longo (acima de 1080d)")

\* categorize_horizon with the Short bound exclusive
categorize_horizon_exclusive(days) ==
    IF IsNull(days) THEN None
    ELSE IF NumLt(days, Num(360, 0)) THEN CURTO
    ELSE IF NumLe(days, Num(1080, 0)) THEN MEDIO
    ELSE LONGO

\* categorize_horizon of rf_destaques.py, rf_destaques_2.py, rf_destaques3.py
categorize_horizon(days) ==
    IF IsNull(days) THEN None
    ELSE IF NumLe(days, Num(360, 0)) THEN CURTO
    ELSE IF NumLe(days, Num(1080, 0)) THEN MEDIO
    ELSE LONGO

\* categorize_horizon of rf_destques.py
categorize_horizon_destques(days) ==
    IF IsNull(days) THEN None
    ELSE IF NumLe(days, Num(360, 0)) THEN CURTO
    ELSE IF NumLt(Num(360, 0), days) /\ NumLe(days, Num(1080, 0)) THEN MEDIO
    ELSE LONGO

HorizonOf(v, days) ==
    IF v = "destques" THEN categorize_horizon_destques(days) ELSE categorize_horizon(days)

\* classify_indexer of rf_destaques.py; classify_indexer_bancario of the
\* two-sheet scripts is the same code
classify_indexer(raw) ==
    IF raw.t = "none" THEN None
    ELSE LET t == Upper(PyStr(raw))
         IN IF Contains(t, <<"I", "P", "C", "A">>) THEN IPCA
            ELSE IF \/ Contains(t, <<"C", "D", "I">>)
                    \/ Contains(t, <<"P", O_ACUTE, "S">>)
                    \/ Contains(t, <<"P", "O", "S">>) THEN POS_CDI
            ELSE IF \/ Contains(t, <<"P", "R", E_ACUTE>>)
                    \/ Contains(t, <<"P", "R", "E">>)
                    \/ Contains(t, <<"F", "I", "X", "A">>) THEN PRE
            ELSE None

\* classify_indexer of rf_destques.py: the CDI test comes first and takes "DI"
classify_indexer_destques(raw) ==
    IF raw.t = "none" THEN None
    ELSE LET t == Upper(Strip(PyStr(raw)))
         IN IF \/ Contains(t, <<"C", "D", "I">>)
               \/ Contains(t, <<"P", O_ACUTE, "S">>)
               \/ Contains(t, <<"P", "O", "S">>)
               \/ Contains(t, <<"D", "I">>) THEN POS_CDI
            ELSE IF Contains(t, <<"I", "P", "C", "A">>) THEN IPCA
            ELSE IF \/ Contains(t, <<"P", "R", E_ACUTE>>)
                    \/ Contains(t, <<"P", "R", "E">>)
                    \/ Contains(t, <<"F", "I", "X", "A">>) THEN PRE
            ELSE None

ClassifyOf(v, raw) ==
    IF v = "destques" THEN classify_indexer_destques(raw) ELSE classify_indexer(raw)

(***************************************************************************)
(* Display formats                                                         *)
(***************************************************************************)
\* the digits of n >= 0 with a "," before every group of three, as the ","
\* option of a format spec writes them
RECURSIVE GroupStr(_)
GroupStr(n) ==
    IF n < 1000 THEN NatStr(n) ELSE GroupStr(n \div 1000) \o <<",">> \o PadStr(n % 1000, 3)

\* the number of hundredths the value m / 10^e is rounded to by ".2f"; a
\* value halfway between two hundredths in decimal is not halfway in binary,
\* and goes up or down with the float that stands for it (up)
Hundredths(m, e, up) ==
    IF e <= 2 THEN Abs(m) * Pow10(2 - e)
    ELSE LET unit == Pow10(e - 2)
             q == Abs(m) \div unit
             r == Abs(m) % unit
         IN IF 2 * r < unit THEN q
            ELSE IF 2 * r > unit THEN q + 1
            ELSE IF up THEN q + 1 ELSE q

\* f"{val:.2f}" and, with grouped, f"{val:,.2f}", of val = m / 10^e
Fixed2(m, e, grouped, up) ==
    LET h == Hundredths(m, e, up)
    IN (IF m < 0 THEN <<"-">> ELSE <<>>)
       \o (IF grouped THEN GroupStr(h \div 100) ELSE NatStr(h \div 100))
       \o <<".">> \o PadStr(h % 100, 2)

\* format_rate_for_display with the Pos (CDI) threshold of the other classes
format_rate_one_threshold(rate_num, indexador, up) ==
    IF IsNull(rate_num) THEN <<>>
    ELSE LET scale == NumLe(rate_num, Num(15, 1))
             m == IF scale THEN rate_num.m * 100 ELSE rate_num.m
         IN IF indexador = POS_CDI
            THEN Replace(Replace(Replace(Fixed2(m, rate_num.e, TRUE, up) \o <<"%">>,
                                         <<",">>, <<"X">>), <<".">>, <<",">>), <<"X">>, <<".">>)
            ELSE Replace(Fixed2(m, rate_num.e, FALSE, up) \o <<"%">>, <<".">>, <<",">>)

\* format_rate_for_display, the same code in the three scripts that have it
format_rate_for_display(rate_num, indexador, up) ==
    IF IsNull(rate_num) THEN <<>>
    ELSE IF indexador = POS_CDI
    THEN LET m == IF NumLe(rate_num, Num(2, 0)) THEN rate_num.m * 100 ELSE rate_num.m
         IN Replace(Replace(Replace(Fixed2(m, rate_num.e, TRUE, up) \o <<"%">>,
                                    <<",">>, <<"X">>), <<".">>, <<",">>), <<"X">>, <<".">>)
    ELSE LET m == IF NumLe(rate_num, Num(15, 1)) THEN rate_num.m * 100 ELSE rate_num.m
         IN Replace(Fixed2(m, rate_num.e, FALSE, up) \o <<"%">>, <<".">>, <<",">>)

(***************************************************************************)
(* Selection engine                                                        *)
(***************************************************************************)
\* a >= b on the sort key, a null key after every number (na_position="last")
RateGe(a, b) == IsNull(b) \/ (IsNum(a) /\ IsNum(b) /\ NumLe(b, a))
RateLe(a, b) == RateGe(b, a)

\* BucketRows with the test on the indexer only
RECURSIVE BucketRows_any_horizon(_, _, _)
BucketRows_any_horizon(dff, idx, horizon) ==
    IF dff = <<>> THEN <<>>
    ELSE (IF Head(dff).indexador_pad = idx THEN <<Head(dff)>> ELSE <<>>)
         \o BucketRows_any_horizon(Tail(dff), idx, horizon)

\* the rows of dff with both bucket keys, in frame order
RECURSIVE BucketRows(_, _, _)
BucketRows(dff, idx, horizon) ==
    IF dff = <<>> THEN <<>>
    ELSE (IF Head(dff).indexador_pad = idx /\ Head(dff).horizonte = horizon
          THEN <<Head(dff)>> ELSE <<>>)
         \o BucketRows(Tail(dff), idx, horizon)

Perms(k) == {p \in [1..k -> 1..k] : \A a, b \in 1..k : p[a] = p[b] => a = b}

FirstN(s, n) == SubSeq(s, 1, IF n < Len(s) THEN n ELSE Len(s))

\* sort_values("taxa_num", ascending=True) followed by head(n)
top_n_block_ascending(dff, idx, horizon, n) ==
    LET sub == BucketRows(dff, idx, horizon)
        k == Len(sub)
    IN { FirstN([i \in 1..k |-> sub[p[i]]], n) :
            p \in {q \in Perms(k) :
                    \A a, b \in 1..k : a < b => RateLe(sub[q[a]].taxa_num, sub[q[b]].taxa_num)} }

\* top_n_block with no result for a bucket that holds no row
top_n_block_fails_when_empty(dff, idx, horizon, n) ==
    LET sub == BucketRows(dff, idx, horizon)
        k == Len(sub)
    IN IF k = 0 THEN {}
       ELSE { FirstN([i \in 1..k |-> sub[p[i]]], n) :
                p \in {q \in Perms(k) :
                        \A a, b \in 1..k : a < b => RateGe(sub[q[a]].taxa_num, sub[q[b]].taxa_num)} }

\* top_n_block (make_block in rf_destques.py): the results sort_values can
\* give.  The sort is pandas' default kind, quicksort, which does not keep
\* the order of equal keys: every order of the rows that is non-increasing
\* in taxa_num is a possible result.
top_n_block(dff, idx, horizon, n) ==
    LET sub == BucketRows(dff, idx, horizon)
        k == Len(sub)
    IN { FirstN([i \in 1..k |-> sub[p[i]]], n) :
            p \in {q \in Perms(k) :
                    \A a, b \in 1..k : a < b => RateGe(sub[q[a]].taxa_num, sub[q[b]].taxa_num)} }

horizons == <<CURTO, MEDIO, LONGO>>

\* the order of the indexer tabs: indexers_order of rf_destques.py, indexers
\* of the other scripts
indexers(v) ==
    IF v = "destques" THEN <<POS_CDI, IPCA, PRE>> ELSE <<POS_CDI, PRE, IPCA>>

\* the nine bucket keys in the order of the two nested loops
BucketKey(v, k) ==
    [idx |-> indexers(v)[((k - 1) \div 3) + 1], hz |-> horizons[((k - 1) % 3) + 1]]

\* the possible outcomes of the first k iterations of the block loops
RECURSIVE AllBlocks(_, _, _, _)
AllBlocks(v, dff, n, k) ==
    IF k = 0 THEN {<<>>}
    ELSE { Append(prev, [idx |-> BucketKey(v, k).idx, hz |-> BucketKey(v, k).hz, recs |-> b]) :
             prev \in AllBlocks(v, dff, n, k - 1),
             b \in top_n_block(dff, BucketKey(v, k).idx, BucketKey(v, k).hz, n) }

(***************************************************************************)
(* Spec: one run of a script on one sheet                                  *)
(***************************************************************************)
T_CDI == Text(<<"C", "D", "I">>)
T_IPCA == Text(<<"I", "P", "C", "A">>)
T_PRE == Text(<<"P", "R", E_ACUTE>>)

\* a row of a sheet whose rating and minimum-investment cells are empty
SheetRow(em, ix, tx, pz, vc) ==
    [emissor |-> em, indexador |-> ix, taxa |-> tx, prazo |-> pz, venc |-> vc,
     rating |-> None, aplic |-> None]

\* the rows a sheet is made of: the three rows of the end-to-end scenario,
\* rows that tie or compete with them, and rows that fail one key or more.
\* venc is the maturity date as a day number, None when it does not parse.
RowPool ==
    { SheetRow("A", T_CDI, Text(<<"1", "1", "5", "%", " ", "C", "D", "I">>), IntCell(400), IntCell(500)),
      SheetRow("B", T_IPCA, Text(<<"I", "P", "C", "A", "+", "6", ",", "5", "0", "%">>), IntCell(900), IntCell(1000)),
      SheetRow("C", T_PRE, Text(<<"1", "3", ",", "2", "0", "%", " ", "a", ".", "a", ".">>), IntCell(200), IntCell(300)),
      SheetRow("D", T_CDI, Text(<<"1", "1", "5", "%", " ", "C", "D", "I">>), IntCell(400), IntCell(500)),
      SheetRow("E", T_CDI, IntCell(120), IntCell(400), IntCell(500)),
      SheetRow("F", T_CDI, Text(<<"1", "1", "0">>), Text(<<"-", "5">>), IntCell(95)),
      SheetRow("G", None, FloatCell(12, 2), IntCell(1081), IntCell(1200)),
      SheetRow("H", T_CDI, Text(<<"a", "b", "c">>), IntCell(400), IntCell(500)),
      SheetRow("I", T_CDI, Text(<<"1", "1", "0">>), Text(<<"a", "b", "c">>), None),
      SheetRow("J", T_CDI, Text(<<"1", ",", "2", ",", "3">>), IntCell(400), IntCell(500)) }

\* a sheet: up to MaxRows different rows of the pool, in any order
Sheets ==
    UNION { {sh \in [1..k -> RowPool] : \A a, b \in 1..k : sh[a] = sh[b] => a = b} :
            k \in 0..MaxRows }

Todays == {100}

Init ==
    /\ variant \in Variants
    /\ rows \in Sheets
    /\ today \in Todays
    /\ has_prazo \in BOOLEAN
    /\ top_n \in 1..MaxTopN
    /\ pc = "start"
    /\ df = <<>>
    /\ blocks = <<>>
    /\ col = <<>>
    /\ fn = "off"
    /\ out = <<>>
    /\ ColsIdle
    /\ RunIdle
    /\ FiltersOff
    /\ RerunIdle
    /\ SendIdle
    /\ ReaderIdle

Column(name) == [i \in 1..Len(rows) |-> rows[i][name]]

\* (venc_dt - pd.Timestamp(date.today())).dt.days
DaysToMaturity(vc) == IF IsNative(vc) THEN Num(vc.m - today, 0) ELSE None

\* Derived with prazo_dias always counted from the day of the run
Derived_from_today ==
    LET prazo == [i \in 1..Len(rows) |-> DaysToMaturity(rows[i].venc)]
        aplic == to_numeric_series(Column("aplic"))
    IN [i \in 1..Len(rows) |->
          [row |-> i,
           emissor |-> rows[i].emissor,
           indexador_pad |-> ClassifyOf(variant, rows[i].indexador),
           prazo_dias |-> prazo[i],
           horizonte |-> HorizonOf(variant, prazo[i]),
           taxa_num |-> ParseRateOf(variant, rows[i].taxa),
           rating |-> rows[i].rating,
           aplic_min_num |-> aplic[i]]]

\* Derived with the maturity used for the rows whose term cell gives no
\* number
Derived_row_fallback ==
    LET col_prazo == to_numeric_series(Column("prazo"))
        prazo == [i \in 1..Len(rows) |->
                    IF has_prazo /\ col_prazo[i] # None THEN col_prazo[i]
                    ELSE DaysToMaturity(rows[i].venc)]
        aplic == to_numeric_series(Column("aplic"))
    IN [i \in 1..Len(rows) |->
          [row |-> i,
           emissor |-> rows[i].emissor,
           indexador_pad |-> ClassifyOf(variant, rows[i].indexador),
           prazo_dias |-> prazo[i],
           horizonte |-> HorizonOf(variant, prazo[i]),
           taxa_num |-> ParseRateOf(variant, rows[i].taxa),
           rating |-> rows[i].rating,
           aplic_min_num |-> aplic[i]]]

\* the frame with the derived columns, before the rows are filtered.
\* rf_destques.py computes _min_app_num inside its filter, on the rows the
\* rating filter kept: the column keeps the dtype it was read with, so each
\* row gets the value computed here.
Derived ==
    LET prazo == IF has_prazo THEN to_numeric_series(Column("prazo"))
                 ELSE [i \in 1..Len(rows) |-> DaysToMaturity(rows[i].venc)]
        aplic == to_numeric_series(Column("aplic"))
    IN [i \in 1..Len(rows) |->
          [row |-> i,
           emissor |-> rows[i].emissor,
           indexador_pad |-> ClassifyOf(variant, rows[i].indexador),
           prazo_dias |-> prazo[i],
           horizonte |-> HorizonOf(variant, prazo[i]),
           taxa_num |-> ParseRateOf(variant, rows[i].taxa),
           rating |-> rows[i].rating,
           aplic_min_num |-> aplic[i]]]

\* the row filter without its test on the rate
Survives_without_rate(r) == r.indexador_pad # None /\ r.horizonte # None

\* df["indexador_pad"].notna() & df["horizonte"].notna() & df["taxa_num"].notna()
Survives(r) == r.indexador_pad # None /\ r.horizonte # None /\ r.taxa_num # None

RECURSIVE KeepRows(_)
KeepRows(d) ==
    IF d = <<>> THEN <<>>
    ELSE (IF Survives(Head(d)) THEN <<Head(d)>> ELSE <<>>) \o KeepRows(Tail(d))

(***************************************************************************)
(* Optional filters                                                        *)
(***************************************************************************)
rating_map ==
    << <<"A", "A", "A">>, <<"A", "A", "+">>, <<"A", "A">>, <<"A", "A", "-">>,
       <<"A", "+">>, <<"A">>, <<"A", "-">>,
       <<"B", "B", "B", "+">>, <<"B", "B", "B">>, <<"B", "B", "B", "-">>,
       <<"B", "B", "+">>, <<"B", "B">>, <<"B", "B", "-">>,
       <<"B", "+">>, <<"B">>, <<"B", "-">>,
       <<"C", "C", "C">>, <<"C", "C">>, <<"C">>, <<"D">> >>

\* rating_score (rating_to_score in rf_destques.py): the score of a cell, or
\* None
rating_score(x) ==
    IF x.t = "none" THEN None
    ELSE LET t == Replace(Upper(Strip(PyStr(x))), <<" ">>, <<>>)
         IN IF \E k \in 1..Len(rating_map) : rating_map[k] = t
            THEN Num(CHOOSE k \in 1..Len(rating_map) : rating_map[k] = t, 0)
            ELSE None

\* the rows of d whose row number is in keep, in the order of d
RECURSIVE SelectRows(_, _)
SelectRows(d, keep) ==
    IF d = <<>> THEN <<>>
    ELSE (IF Head(d).row \in keep THEN <<Head(d)>> ELSE <<>>) \o SelectRows(Tail(d), keep)

RowsWhere(d, mask) == SelectRows(d, {d[i].row : i \in mask})

\* the rating filter keeping the scores at or above the threshold's
rating_filter_worse(d, use, minimum, resolved_col) ==
    LET min_score == rating_score(Text(minimum))
        Worse(r) == rating_score(r.rating) # None /\ NumLe(min_score, rating_score(r.rating))
    IN IF use /\ resolved_col /\ min_score # None THEN RowsWhere(d, {k \in 1..Len(d) : Worse(d[k])}) ELSE d

\* the rating filter of rf_destaques.py
rating_filter(d, use, minimum, resolved_col) ==
    LET min_score == rating_score(Text(minimum))
        Passes(r) == rating_score(r.rating) # None /\ NumLe(rating_score(r.rating), min_score)
    IN IF use /\ resolved_col /\ min_score # None THEN RowsWhere(d, {k \in 1..Len(d) : Passes(d[k])}) ELSE d

\* the rating filter of rf_destques.py: the rows with an empty rating go
\* first, before the threshold is looked up
rating_filter_destques(d, use, minimum, resolved_col) ==
    LET min_score == rating_score(Text(minimum))
        Passes(r) == rating_score(r.rating) # None /\ NumLe(rating_score(r.rating), min_score)
        rated == RowsWhere(d, {k \in 1..Len(d) : d[k].rating # None})
    IN IF use /\ resolved_col
       THEN IF min_score = None THEN rated
            ELSE RowsWhere(rated, {k \in 1..Len(rated) : Passes(rated[k])})
       ELSE d

\* the min app filter keeping only the first row under the cap
min_app_filter_first(d, use, cap) ==
    LET Passes(r) == r.aplic_min_num # None /\ NumLe(r.aplic_min_num, Num(cap, 0))
    IN IF use /\ cap > 0 THEN FirstN(RowsWhere(d, {k \in 1..Len(d) : Passes(d[k])}), 1) ELSE d

\* the min app filter of both scripts
min_app_filter(d, use, cap) ==
    LET Passes(r) == r.aplic_min_num # None /\ NumLe(r.aplic_min_num, Num(cap, 0))
    IN IF use /\ cap > 0 THEN RowsWhere(d, {k \in 1..Len(d) : Passes(d[k])}) ELSE d

RatingFilterOf(v, d, use, minimum, resolved_col) ==
    CASE v = "destaques" -> rating_filter(d, use, minimum, resolved_col)
      [] v = "destques" -> rating_filter_destques(d, use, minimum, resolved_col)
      [] OTHER -> d

MinAppFilterOf(v, d, use, cap) ==
    IF v \in {"destaques", "destques"} THEN min_app_filter(d, use, cap) ELSE d

\* Filtered with neither optional filter applied
Filtered_unfiltered(v, d, use_rating, minimum, resolved_col, use_min_app, cap) == KeepRows(d)

\* the frame the script hands to the display, from the derived frame d:
\* rf_destaques.py drops the rows with a null key and then filters,
\* rf_destques.py filters and then drops; the two-sheet scripts have no filter
Filtered(v, d, use_rating, minimum, resolved_col, use_min_app, cap) ==
    IF v = "destques"
    THEN KeepRows(MinAppFilterOf(v, RatingFilterOf(v, d, use_rating, minimum, resolved_col),
                                 use_min_app, cap))
    ELSE MinAppFilterOf(v, RatingFilterOf(v, KeepRows(d), use_rating, minimum, resolved_col),
                        use_min_app, cap)

\* st.warning of the rating filter of rf_destques.py
RatingWarnings(v, use, minimum, resolved_col) ==
    IF v = "destques" /\ use /\ resolved_col /\ rating_score(Text(minimum)) = None
    THEN {"Rating minimo nao reconhecido"} ELSE {}

\* the Transform section and the optional filters: the derived columns, the
\* row filter and the two filters.  An exception of parse_rate_value leaves
\* .apply and ends the run.
Transform ==
    /\ pc = "start"
    /\ LET d == Derived
       IN IF \E i \in 1..Len(rows) : d[i].taxa_num = Raise
          THEN pc' = "aborted" /\ df' = df /\ warnings' = warnings
          ELSE /\ pc' = "transformed"
               /\ df' = Filtered(variant, d, use_rating_filter, rating_min, has_rating,
                                 use_min_app_filter, max_min_app)
               /\ warnings' = warnings \cup
                     RatingWarnings(variant, use_rating_filter, rating_min, has_rating)
    /\ UNCHANGED <<variant, rows, today, has_prazo, top_n, blocks, parseVars, colsVars, runVars,
                   settingVars, rerunVars, readerVars, sendVars>>

\* the "Top do dia" section: one table per bucket, nine calls of top_n_block
Display ==
    /\ pc = "transformed"
    /\ blocks' \in AllBlocks(variant, df, top_n, 9)
    /\ pc' = "done"
    /\ UNCHANGED <<variant, rows, today, has_prazo, top_n, df, parseVars, colsVars, runVars, settingVars, warnings, rerunVars, readerVars, sendVars>>

Next == Transform \/ Display

Spec == Init /\ [][Next]_vars

(***************************************************************************)
(* SpecFilter: one run of a script with the optional filters set           *)
(***************************************************************************)
FilterRow(em, tx, rt, ap, ix, pz) ==
    [emissor |-> em, indexador |-> ix, taxa |-> tx, prazo |-> pz, venc |-> None,
     rating |-> rt, aplic |-> ap]

\* rows of one bucket with different rates, ratings and minimum investments,
\* and a row with no indexer class
FilterPool ==
    { FilterRow("P", Text(<<"1", "2", "0">>), Text(<<"A", "A", "A">>), IntCell(10000), T_CDI, IntCell(400)),
      FilterRow("Q", Text(<<"1", "1", "5">>), Text(<<" ", "a", "-">>), IntCell(1000), T_CDI, IntCell(400)),
      FilterRow("R", Text(<<"1", "1", "0">>), Text(<<"B", "B", "B">>), IntCell(1000), T_CDI, IntCell(400)),
      FilterRow("S", Text(<<"1", "1", "8">>), None, Text(<<"5", ".", "0", "0", "0", ",", "0", "0">>), T_CDI, IntCell(400)),
      FilterRow("T", Text(<<"1", "1", "2">>), Text(<<"x", "x">>), None, T_CDI, IntCell(400)),
      FilterRow("V", Text(<<"1", "2", "5">>), Text(<<"A">>), IntCell(1000), None, IntCell(400)) }

FilterSheets ==
    UNION { {sh \in [1..k -> FilterPool] : \A a, b \in 1..k : sh[a] = sh[b] => a = b} :
            k \in 0..MaxRows }

\* the threshold texts: "a-" after a space, and one not in the table
RatingTexts == { <<" ", "a", "-">>, <<"z", "z">> }

InitFilter ==
    /\ variant \in {"destques", "destaques"}
    /\ rows \in FilterSheets
    /\ today \in Todays
    /\ has_prazo = TRUE
    /\ top_n \in 1..MaxTopN
    /\ use_rating_filter \in BOOLEAN
    /\ rating_min \in RatingTexts
    /\ has_rating = \E i \in 1..Len(rows) : rows[i].rating # None
    /\ use_min_app_filter \in BOOLEAN
    /\ max_min_app \in {0, 5000}
    /\ mostrar_apenas_blocos_com_ativos = TRUE
    /\ warnings = {}
    /\ RerunIdle
    /\ SendIdle
    /\ ReaderIdle
    /\ pc = "start"
    /\ df = <<>>
    /\ blocks = <<>>
    /\ col = <<>>
    /\ fn = "off"
    /\ out = <<>>
    /\ ColsIdle
    /\ RunIdle

SpecFilter == InitFilter /\ [][Next]_vars

(***************************************************************************)
(* SpecParse: one helper applied to one column                             *)
(***************************************************************************)
Alphabet == {"1", "2", ".", ",", "-", "%", "a"}

TextsUpTo(n) == UNION {[1..k -> Alphabet] : k \in 0..n}

\* the texts of the testable properties and of the parsers' comments
ExampleTexts ==
    { <<"1", ".", "2", "3", "4", ",", "5", "6">>,
      <<"1", "1", "0", "%", " ", "C", "D", "I">>,
      <<"a", "b", "c">>,
      <<"I", "P", "C", "A", " ", "+", " ", "7", ",", "2", "0", "%">>,
      <<"1", "3", ",", "4", "5", "%", " ", "a", ".", "a", ".">>,
      <<"1", "3", ".", "4", "5">>,
      <<"1", ".", "2", "3", "4">>,
      <<"1", ".", "2", ".", "3">>,
      <<"1", ",", "2", ",", "3">>,
      <<"3", "6", "0", " ", "d", "i", "a", "s">>,
      <<" ", "1", "2", " ">> }

IndexerTokens ==
    { <<"I", "P", "C", "A">>, <<"C", "D", "I">>, <<"D", "I">>, <<"P", "R", E_ACUTE>>,
      <<"p", "r", "e">>, <<"P", O_ACUTE, "S">>, <<"p", "o", "s">>, <<"F", "i", "x", "a">>,
      <<"x", "y", "z">>, <<" ">>, <<"+">> }

RECURSIVE TokenTexts(_)
TokenTexts(n) ==
    IF n = 0 THEN {<<>>}
    ELSE TokenTexts(n - 1) \cup {a \o b : a \in TokenTexts(n - 1), b \in IndexerTokens}

IndexerExamples ==
    { <<"1", "1", "0", "%", " ", "d", "o", " ", "C", "D", "I">>,
      <<"I", "P", "C", "A", " ", "+", " ", "6", "%">>,
      <<"P", "r", "e", "f", "i", "x", "a", "d", "o", " ", "1", "2", "%">>,
      <<"I", "P", "C", "A", " ", "c", "o", "m", " ", "p", "i", "s", "o", " ", "P", "R", E_ACUTE>> }

TextCells ==
    {Text(s) : s \in TextsUpTo(MaxLen) \cup ExampleTexts \cup TokenTexts(MaxTokens) \cup IndexerExamples}

IntCells == {IntCell(n) : n \in (-MaxNeg)..MaxDays}

\* native floats: 0.12, 110.5, 360.5, 1080.5, 110.0, -1.5, ...
FloatCells ==
    { FloatCell(12, 2), FloatCell(1105, 1), FloatCell(3605, 1), FloatCell(10805, 1),
      FloatCell(110, 0), FloatCell(-15, 1), FloatCell(15, 1), FloatCell(72, 3) }

NativeCells == IntCells \cup FloatCells

\* a column of one cell, or of a native number beside a text cell (object dtype)
Columns ==
    {<<c>> : c \in TextCells \cup NativeCells \cup {None}}
    \cup {<<c, Text(<<"a", "b", "c">>)>> : c \in NativeCells}

InitParse ==
    /\ variant \in Variants
    /\ col \in Columns
    /\ fn = "none"
    /\ out = <<>>
    /\ rows = <<>>
    /\ today = 0
    /\ has_prazo = TRUE
    /\ pc = "off"
    /\ df = <<>>
    /\ top_n = 1
    /\ blocks = <<>>
    /\ ColsIdle
    /\ RunIdle
    /\ FiltersOff
    /\ RerunIdle
    /\ SendIdle
    /\ ReaderIdle

\* to_numeric_series(df[col])
ApplyToNumeric ==
    /\ fn = "none"
    /\ fn' = "to_numeric_series"
    /\ out' = to_numeric_series(col)
    /\ UNCHANGED <<variant, col, pipeVars, colsVars, runVars, settingVars, warnings, rerunVars, readerVars, sendVars>>

\* df[col_taxa].apply(parse_rate_value)
ApplyParseRate ==
    /\ fn = "none"
    /\ fn' = "parse_rate_value"
    /\ out' = [i \in 1..Len(col) |-> ParseRateOf(variant, col[i])]
    /\ UNCHANGED <<variant, col, pipeVars, colsVars, runVars, settingVars, warnings, rerunVars, readerVars, sendVars>>

\* df[col_indexador].apply(classify_indexer)
ApplyClassify ==
    /\ fn = "none"
    /\ fn' = "classify_indexer"
    /\ out' = [i \in 1..Len(col) |-> ClassifyOf(variant, col[i])]
    /\ UNCHANGED <<variant, col, pipeVars, colsVars, runVars, settingVars, warnings, rerunVars, readerVars, sendVars>>

\* to_numeric_series(df[col_prazo]).apply(categorize_horizon)
ApplyHorizon ==
    /\ fn = "none"
    /\ fn' = "categorize_horizon"
    /\ out' = LET d == to_numeric_series(col)
              IN [i \in 1..Len(col) |-> HorizonOf(variant, d[i])]
    /\ UNCHANGED <<variant, col, pipeVars, colsVars, runVars, settingVars, warnings, rerunVars, readerVars, sendVars>>

NextParse == ApplyToNumeric \/ ApplyParseRate \/ ApplyClassify \/ ApplyHorizon

SpecParse == InitParse /\ [][NextParse]_vars

(***************************************************************************)
(* SpecRerun: rf_destaques.py run again on the same file and settings      *)
(***************************************************************************)
\* the calendar date of day number n >= 1, day 1 being 1 January 2025
YearLen(y) == IF y % 4 = 0 THEN 366 ELSE 365

MonthLen(y, m) ==
    IF m = 2 THEN (IF y % 4 = 0 THEN 29 ELSE 28)
    ELSE IF m \in {4, 6, 9, 11} THEN 30 ELSE 31

RECURSIVE MonthOf(_, _, _)
MonthOf(n, y, m) ==
    IF n <= MonthLen(y, m) THEN [d |-> n, m |-> m, y |-> y]
    ELSE MonthOf(n - MonthLen(y, m), y, m + 1)

RECURSIVE DateOf(_, _)
DateOf(n, y) == IF n <= YearLen(y) THEN MonthOf(n, y, 1) ELSE DateOf(n - YearLen(y), y + 1)

\* strftime("%d/%m/%Y") of day number n
strftime_dmy(n) ==
    LET dt == DateOf(n, 2025)
    IN PadStr(dt.d, 2) \o <<"/">> \o PadStr(dt.m, 2) \o <<"/">> \o NatStr(dt.y)

\* format_date_br of the maturity cell read by to_date_series
format_date_br(vc) == IF IsNative(vc) /\ vc.m >= 1 THEN strftime_dmy(vc.m) ELSE <<>>

\* format_currency_brl: "R$ " and the value rounded to an integer (a half
\* goes to the even neighbour), its thousands separated by "."
format_currency_brl(value) ==
    IF IsNull(value) THEN <<>>
    ELSE LET unit == Pow10(value.e)
             q == Abs(value.m) \div unit
             r == Abs(value.m) % unit
             n == IF 2 * r < unit THEN q
                  ELSE IF 2 * r > unit THEN q + 1
                  ELSE IF q % 2 = 0 THEN q ELSE q + 1
         IN <<"R", "$", " ">> \o (IF value.m < 0 /\ n > 0 THEN <<"-">> ELSE <<>>)
            \o Replace(GroupStr(n), <<",">>, <<".">>)

\* the rows of dff of one indexer, in frame order
RECURSIVE IndexerRows(_, _)
IndexerRows(dff, idx) ==
    IF dff = <<>> THEN <<>>
    ELSE (IF Head(dff).indexador_pad = idx THEN <<Head(dff)>> ELSE <<>>)
         \o IndexerRows(Tail(dff), idx)

\* format_card: the title, maturity, rate and minimum lines of a record.
\* taxa_fmt is the column Transform computed with format_rate_for_display;
\* the rates of the sheets run here have at most two decimals, so that ".2f"
\* does not round.
format_card(r, prefixo_taxa) ==
    LET taxa == format_rate_for_display(r.taxa_num, r.indexador_pad, FALSE)
    IN [titulo |-> r.emissor,
        venc |-> format_date_br(rows[r.row].venc),
        taxa |-> IF taxa = <<>> THEN <<>> ELSE prefixo_taxa \o taxa,
        amin |-> format_currency_brl(r.aplic_min_num)]

\* section: the results of sort_values(...).head(top_n) on the rows of one
\* indexer, as cards; no card stands for the line "- (sem ativos hoje)"
section(dff, indexador_label, section_title, prefixo_taxa, n) ==
    LET sub == IndexerRows(dff, indexador_label)
        k == Len(sub)
    IN { [title |-> section_title,
          cards |-> [i \in 1..(IF n < k THEN n ELSE k) |-> format_card(sub[p[i]], prefixo_taxa)]] :
            p \in {q \in Perms(k) :
                    \A a, b \in 1..k : a < b => RateGe(sub[q[a]].taxa_num, sub[q[b]].taxa_num)} }

\* build_whatsapp_message of rf_destaques.py: the date of the day in the
\* heading, then the three sections in their fixed order.  The message is
\* kept as the parts that are joined, without the fixed texts between them.
build_whatsapp_message(dff, n, day) ==
    { [data_envio |-> strftime_dmy(day), sections |-> <<s1, s2, s3>>] :
        s1 \in section(dff, POS_CDI, "POS-FIXADOS", <<>>, n),
        s2 \in section(dff, PRE, "PRE-FIXADOS", <<>>, n),
        s3 \in section(dff, IPCA, "IPCA", <<"I", "P", "C", "A", "+", " ">>, n) }

\* the rows of the reruns: no two rates are equal, so that every sort has
\* one result; row X matures 361 days after day 100
RerunPool ==
    { SheetRow("X", T_CDI, IntCell(115), IntCell(400), IntCell(461)),
      SheetRow("Y", T_CDI, IntCell(120), IntCell(300), IntCell(500)),
      SheetRow("Z", T_IPCA, FloatCell(65, 1), IntCell(900), IntCell(1000)) }

RerunSheets ==
    UNION { {sh \in [1..k -> RerunPool] : \A a, b \in 1..k : sh[a] = sh[b] => a = b} :
            k \in 0..MaxRows }

InitRerun ==
    /\ variant = "destaques"
    /\ rows \in RerunSheets
    /\ today \in Todays
    /\ has_prazo \in BOOLEAN
    /\ top_n \in 1..MaxTopN
    /\ pc = "start"
    /\ df = <<>>
    /\ blocks = <<>>
    /\ col = <<>>
    /\ fn = "off"
    /\ out = <<>>
    /\ ColsIdle
    /\ RunIdle
    /\ FiltersOff
    /\ RerunIdle
    /\ SendIdle
    /\ ReaderIdle

\* the "Mensagem pronta para WhatsApp" section, which follows the tables
BuildMessage ==
    /\ pc = "done"
    /\ msg = <<>>
    /\ variant = "destaques"
    /\ msg' \in build_whatsapp_message(df, top_n, today)
    /\ pc' = "message"
    /\ UNCHANGED <<variant, rows, today, has_prazo, top_n, df, blocks, previous, runs, parseVars,
                   colsVars, runVars, settingVars, warnings, readerVars, sendVars>>

\* the script runs again from its first line on the same uploaded file and
\* the same sidebar settings, the same day or the day after
Rerun ==
    /\ pc = "message"
    /\ runs < MaxRuns
    /\ runs' = runs + 1
    /\ previous' = [today |-> today, blocks |-> blocks, msg |-> msg]
    /\ today' \in {today, today + 1}
    /\ pc' = "start"
    /\ df' = <<>>
    /\ blocks' = <<>>
    /\ msg' = <<>>
    /\ UNCHANGED <<variant, rows, has_prazo, top_n, parseVars, colsVars, runVars, settingVars,
                   warnings, readerVars, sendVars>>

NextRerun == Transform \/ Display \/ BuildMessage \/ Rerun

SpecRerun == InitRerun /\ [][NextRerun]_vars

(***************************************************************************)
(* SpecMessage: the messages of rf_destaques.py and rf_destaques3.py       *)
(***************************************************************************)
\* the number of records per bucket in the messages of the two-sheet scripts
TOP_WA == 5

\* a message of the two-sheet scripts is kept as the parts that are appended
\* to msg, in the order they are appended: the fixed texts by their wording
\* (label), the texts that are computed by their characters (text)
Part(kind, label, text) ==
    [kind |-> kind, label |-> label, text |-> text, venc |-> <<>>, amin |-> <<>>, row |-> 0]

\* format_card_banc: the card of a record, the same lines as format_card
format_card_banc(r, prefixo_taxa) ==
    LET c == format_card(r, prefixo_taxa)
    IN [kind |-> "card", label |-> c.titulo, text |-> c.taxa, venc |-> c.venc, amin |-> c.amin,
        row |-> r.row]

\* the (hz_label, hz_title) pairs of the loop of build_message_bancario
hz_pairs ==
    << [hz_label |-> CURTO, hz_title |-> "Curto Prazo (ate 360d)"],
       [hz_label |-> MEDIO, hz_title |-> "Medio Prazo (361 a 1080d)"],
       [hz_label |-> LONGO, hz_title |-> "Longo Prazo (acima de 1080d)"] >>

\* what one turn of the loop appends for the block sub
hz_section(sub, hz_title, prefixo_taxa, only_with_assets) ==
    IF sub = <<>> /\ only_with_assets THEN <<>>
    ELSE <<Part("horizon", hz_title, <<>>)>>
         \o (IF sub = <<>> THEN <<Part("placeholder", "- (sem ativos hoje)", <<>>)>>
             ELSE [i \in 1..Len(sub) |-> format_card_banc(sub[i], prefixo_taxa)])

\* what the first k turns of the loop can append
RECURSIVE hz_sections(_, _, _, _, _)
hz_sections(dff, indexador_label, prefixo_taxa, only_with_assets, k) ==
    IF k = 0 THEN {<<>>}
    ELSE { prev \o hz_section(sub, hz_pairs[k].hz_title, prefixo_taxa, only_with_assets) :
             prev \in hz_sections(dff, indexador_label, prefixo_taxa, only_with_assets, k - 1),
             sub \in top_n_block(dff, indexador_label, hz_pairs[k].hz_label, TOP_WA) }

\* build_message_bancario with the horizons appended in the order Long,
\* Medium, Short
build_message_bancario_long_first(dff, indexador_label, titulo_indexador, prefixo_taxa, only_with_assets, day) ==
    { << Part("title", "Destaques de ativos Bancarios", <<>>),
         Part("date", "TAXAS DE HOJE", strftime_dmy(day)),
         Part("indexer", titulo_indexador, <<>>) >> \o s3 \o s2 \o s1 :
        s1 \in {hz_section(sub, hz_pairs[1].hz_title, prefixo_taxa, only_with_assets) :
                  sub \in top_n_block(dff, indexador_label, hz_pairs[1].hz_label, TOP_WA)},
        s2 \in {hz_section(sub, hz_pairs[2].hz_title, prefixo_taxa, only_with_assets) :
                  sub \in top_n_block(dff, indexador_label, hz_pairs[2].hz_label, TOP_WA)},
        s3 \in {hz_section(sub, hz_pairs[3].hz_title, prefixo_taxa, only_with_assets) :
                  sub \in top_n_block(dff, indexador_label, hz_pairs[3].hz_label, TOP_WA)} }

\* build_message_bancario: the heading with the date of the day and the
\* indexer's title, then the horizons of the loop
build_message_bancario(dff, indexador_label, titulo_indexador, prefixo_taxa, only_with_assets, day) ==
    { << Part("title", "Destaques de ativos Bancarios", <<>>),
         Part("date", "TAXAS DE HOJE", strftime_dmy(day)),
         Part("indexer", titulo_indexador, <<>>) >> \o secs :
        secs \in hz_sections(dff, indexador_label, prefixo_taxa, only_with_assets, 3) }

\* the rows of the message runs: no two rates are equal; M1 holds its rate
\* as a percent and M2 as a fraction, both in the bucket Pos (CDI), Medio;
\* the term cell of M5 is no number while its maturity is a date
MessagePool ==
    { SheetRow("M1", T_CDI, IntCell(105), IntCell(400), IntCell(500)),
      SheetRow("M2", T_CDI, FloatCell(110, 2), IntCell(400), IntCell(500)),
      SheetRow("M3", T_IPCA, Text(<<"I", "P", "C", "A", "+", "6", ",", "5", "0", "%">>),
               IntCell(900), IntCell(1000)),
      SheetRow("M4", T_PRE, FloatCell(12, 2), IntCell(200), IntCell(300)),
      SheetRow("M5", T_CDI, IntCell(120), Text(<<"a", "b", "c">>), IntCell(500)) }

MessageSheets ==
    UNION { {sh \in [1..k -> MessagePool] : \A a, b \in 1..k : sh[a] = sh[b] => a = b} :
            k \in 0..MaxRows }

\* rf_destaques.py has no "Mostrar apenas blocos com ativos" checkbox: there
\* the variable is the setting the user wants and the script cannot read
InitMessage ==
    /\ variant \in Variants
    /\ rows \in MessageSheets
    /\ today \in Todays
    /\ has_prazo \in BOOLEAN
    /\ top_n \in 1..MaxTopN
    /\ pc = "start"
    /\ df = <<>>
    /\ blocks = <<>>
    /\ col = <<>>
    /\ fn = "off"
    /\ out = <<>>
    /\ ColsIdle
    /\ RunIdle
    /\ use_rating_filter = FALSE
    /\ rating_min = <<"A", "-">>
    /\ has_rating = FALSE
    /\ use_min_app_filter = FALSE
    /\ max_min_app = 0
    /\ mostrar_apenas_blocos_com_ativos \in BOOLEAN
    /\ warnings = {}
    /\ RerunIdle
    /\ SendIdle
    /\ ReaderIdle

\* msg_pos, msg_pre and msg_ipca: the three calls of build_message_bancario
bank_messages(dff, only_with_assets, day) ==
    { <<msg_pos, msg_pre, msg_ipca>> :
        msg_pos \in build_message_bancario(dff, POS_CDI, "POS-FIXADOS", <<>>,
                                           only_with_assets, day),
        msg_pre \in build_message_bancario(dff, PRE, "PRE-FIXADOS", <<>>,
                                           only_with_assets, day),
        msg_ipca \in build_message_bancario(dff, IPCA, "IPCA", <<"I", "P", "C", "A", "+", " ">>,
                                            only_with_assets, day) }

\* the "Mensagens prontas para WhatsApp" section of the bank tab
BuildMessages3 ==
    /\ pc = "done"
    /\ msg = <<>>
    /\ variant = "destaques3"
    /\ msg' \in bank_messages(df, mostrar_apenas_blocos_com_ativos, today)
    /\ pc' = "message"
    /\ UNCHANGED <<variant, rows, today, has_prazo, top_n, df, blocks, previous, runs, parseVars,
                   colsVars, runVars, settingVars, warnings, readerVars, sendVars>>

NextMessage == Transform \/ Display \/ BuildMessage \/ BuildMessages3

SpecMessage == InitMessage /\ [][NextMessage]_vars

(***************************************************************************)
(* SpecSend: one click on "Enviar mensagens agora" (rf_destaques3.py)      *)
(***************************************************************************)
\* the names of the groups of the secrets, in their order
GroupNames == <<"interno", "clientes", "parceiros", "outros">>

\* a participant of the metadata: a dict with a "phone" or a plain string
Participant(kind, phone) == [kind |-> kind, phone |-> phone]

\* the participants the metadata of a group lists: the first group has three
\* phones, one of them twice and in two spellings, and an entry without
\* digits; the second has one phone; the others have none
ParticipantsOf(g) ==
    IF g = GroupNames[1]
    THEN << Participant("dict", <<"5", "-", "1">>), Participant("str", <<"5", "1">>),
            Participant("dict", <<"5", "2">>), Participant("str", <<"-">>),
            Participant("dict", <<>>), Participant("dict", <<"5", "3">>) >>
    ELSE IF g = GroupNames[2] THEN << Participant("str", <<"6", "1">>) >>
    ELSE <<>>

\* list(dict.fromkeys(xs)): the first occurrence of each element of the
\* first n, in order
RECURSIVE DedupUpTo(_, _)
DedupUpTo(xs, n) ==
    IF n = 0 THEN <<>>
    ELSE DedupUpTo(xs, n - 1)
         \o (IF \E j \in 1..(n - 1) : xs[j] = xs[n] THEN <<>> ELSE <<xs[n]>>)

Dedup(xs) == DedupUpTo(xs, Len(xs))

\* the elements of xs that are not the empty text, in order
RECURSIVE NonEmpty(_)
NonEmpty(xs) ==
    IF xs = <<>> THEN <<>>
    ELSE (IF Head(xs) = <<>> THEN <<>> ELSE <<Head(xs)>>) \o NonEmpty(Tail(xs))

\* extract_participants_phones: the phones of the dicts that have one and
\* the strings, their non-digits removed, the empty ones dropped, each phone
\* once in the order of its first occurrence.  An entry without a phone or
\* with an empty one has no digit, so that the two filters on empty texts
\* come to the one after re.sub.
extract_participants_phones(ps) ==
    Dedup(NonEmpty([i \in 1..Len(ps) |-> OnlyDigits(ps[i].phone)]))

\* phones[: int(max_mentions)] when max_mentions > 0, phones otherwise
cut_mentions(phones, maximum) ==
    IF maximum > 0 THEN FirstN(phones, maximum) ELSE phones

\* the packages of messages: a message with its heading, and a text of
\* blanks, which the loop skips
MSG == <<"*", "D", "e", "s", "t", "a", "q", "u", "e", "s">>
BLANK == <<" ", " ">>
Packages == { <<MSG>>, <<MSG, MSG>>, <<MSG, BLANK>>, <<BLANK, MSG>> }

\* not msg or not str(msg).strip()
IsBlankMessage(m) == m = <<>> \/ Strip(m) = <<>>

\* the button is pressed: can_send holds (secrets read, a group, a message)
InitSend ==
    /\ variant = "destaques3"
    /\ \E n \in 1..MaxGroups : groups_dict = SubSeq(GroupNames, 1, n)
    /\ participants = [i \in 1..Len(groups_dict) |-> ParticipantsOf(groups_dict[i])]
    /\ messages_to_send \in Packages
    /\ mention_all_enabled \in BOOLEAN
    /\ mention_groups \in
          IF mention_all_enabled
          THEN { {}, {groups_dict[1]}, {groups_dict[i] : i \in 1..Len(groups_dict)} }
          ELSE { {} }
    /\ max_mentions \in IF mention_groups = {} THEN {50} ELSE 0..MaxMentions
    /\ gi = 0 /\ mi = 0
    /\ mentioned_list = NoMentions
    /\ used_mentions = FALSE
    /\ group_results = <<>>
    /\ all_results = <<>>
    /\ posted = <<>>
    /\ pc = "groups"
    /\ rows = <<>>
    /\ today \in Todays
    /\ has_prazo = TRUE
    /\ top_n = 1
    /\ df = <<>>
    /\ blocks = <<>>
    /\ col = <<>>
    /\ fn = "off"
    /\ out = <<>>
    /\ ColsIdle
    /\ RunIdle
    /\ FiltersOff
    /\ RerunIdle
    /\ ReaderIdle

\* NextGroup with mentions in every group once mentions are enabled
NextGroup_mentions_everywhere ==
    /\ pc = "groups"
    /\ gi < Len(groups_dict)
    /\ gi' = gi + 1
    /\ LET gname == groups_dict[gi + 1]
       IN IF mention_all_enabled
          THEN \/ /\ mentioned_list' =
                       [is_none |-> FALSE,
                        phones |-> cut_mentions(extract_participants_phones(participants[gi + 1]),
                                                max_mentions)]
                  /\ used_mentions' = TRUE
                  /\ warnings' = warnings
               \/ /\ mentioned_list' = NoMentions
                  /\ used_mentions' = FALSE
                  /\ warnings' = warnings \cup {gname}
          ELSE /\ mentioned_list' = NoMentions
               /\ used_mentions' = FALSE
               /\ warnings' = warnings
    /\ group_results' = <<>>
    /\ mi' = 0
    /\ pc' = "messages"
    /\ UNCHANGED <<variant, groups_dict, participants, messages_to_send, mention_all_enabled,
                   mention_groups, max_mentions, all_results, posted, rows, today, has_prazo,
                   top_n, df, blocks, parseVars, colsVars, runVars, settingVars, rerunVars,
                   readerVars>>

\* the head of one turn of the loop over the groups: the lookup of the
\* participants when the group is selected for mention, which can raise
NextGroup ==
    /\ pc = "groups"
    /\ gi < Len(groups_dict)
    /\ gi' = gi + 1
    /\ LET gname == groups_dict[gi + 1]
       IN IF mention_all_enabled /\ gname \in mention_groups
          THEN \/ /\ mentioned_list' =
                       [is_none |-> FALSE,
                        phones |-> cut_mentions(extract_participants_phones(participants[gi + 1]),
                                                max_mentions)]
                  /\ used_mentions' = TRUE
                  /\ warnings' = warnings
               \/ /\ mentioned_list' = NoMentions
                  /\ used_mentions' = FALSE
                  /\ warnings' = warnings \cup {gname}
          ELSE /\ mentioned_list' = NoMentions
               /\ used_mentions' = FALSE
               /\ warnings' = warnings
    /\ group_results' = <<>>
    /\ mi' = 0
    /\ pc' = "messages"
    /\ UNCHANGED <<variant, groups_dict, participants, messages_to_send, mention_all_enabled,
                   mention_groups, max_mentions, all_results, posted, rows, today, has_prazo,
                   top_n, df, blocks, parseVars, colsVars, runVars, settingVars, rerunVars,
                   readerVars>>

\* SendMessage leaving the group's loop at the first send that fails
SendMessage_stops_on_failure ==
    /\ pc = "messages"
    /\ mi < Len(messages_to_send)
    /\ IF IsBlankMessage(messages_to_send[mi + 1])
       THEN mi' = mi + 1 /\ UNCHANGED <<posted, group_results>>
       ELSE \E outcome \in {"ok", "HTTPError", "Exception"} :
               /\ mi' = IF outcome = "ok" THEN mi + 1 ELSE Len(messages_to_send)
               /\ posted' = Append(posted,
                     [phone_or_group |-> groups_dict[gi], ordem |-> mi + 1,
                      mentioned |-> mentioned_list.phones, outcome |-> outcome])
               /\ group_results' = Append(group_results,
                     [ordem |-> mi + 1, ok |-> outcome = "ok"])
    /\ UNCHANGED <<variant, groups_dict, participants, messages_to_send, mention_all_enabled,
                   mention_groups, max_mentions, gi, mentioned_list, used_mentions, all_results,
                   pc, rows, today, has_prazo, top_n, df, blocks, parseVars, colsVars, runVars,
                   settingVars, warnings, rerunVars, readerVars>>

\* one turn of the loop over the messages: a blank message is skipped; the
\* others go to zapi_send_text, which returns, raises HTTPError or raises
\* another exception, and the result is appended
SendMessage ==
    /\ pc = "messages"
    /\ mi < Len(messages_to_send)
    /\ mi' = mi + 1
    /\ IF IsBlankMessage(messages_to_send[mi + 1])
       THEN UNCHANGED <<posted, group_results>>
       ELSE \E outcome \in {"ok", "HTTPError", "Exception"} :
               /\ posted' = Append(posted,
                     [phone_or_group |-> groups_dict[gi], ordem |-> mi + 1,
                      mentioned |-> mentioned_list.phones, outcome |-> outcome])
               /\ group_results' = Append(group_results,
                     [ordem |-> mi + 1, ok |-> outcome = "ok"])
    /\ UNCHANGED <<variant, groups_dict, participants, messages_to_send, mention_all_enabled,
                   mention_groups, max_mentions, gi, mentioned_list, used_mentions, all_results,
                   pc, rows, today, has_prazo, top_n, df, blocks, parseVars, colsVars, runVars,
                   settingVars, warnings, rerunVars, readerVars>>

\* the end of the turn for a group: its entry is appended to all_results
EndGroup ==
    /\ pc = "messages"
    /\ mi = Len(messages_to_send)
    /\ all_results' = Append(all_results,
          [grupo |-> groups_dict[gi], mencionou_todos |-> used_mentions,
           qtd_mencoes |-> Len(mentioned_list.phones), resultados |-> group_results])
    /\ pc' = "groups"
    /\ UNCHANGED <<variant, groups_dict, participants, messages_to_send, mention_all_enabled,
                   mention_groups, max_mentions, gi, mi, mentioned_list, used_mentions,
                   group_results, posted, rows, today, has_prazo, top_n, df, blocks, parseVars,
                   colsVars, runVars, settingVars, warnings, rerunVars, readerVars>>

\* the loop over the groups is over: st.success and st.json
FinishSend ==
    /\ pc = "groups"
    /\ gi = Len(groups_dict)
    /\ pc' = "sent"
    /\ UNCHANGED <<variant, rows, today, has_prazo, top_n, df, blocks, parseVars, colsVars,
                   runVars, settingVars, warnings, rerunVars, readerVars, sendVars>>

NextSend == NextGroup \/ SendMessage \/ EndGroup \/ FinishSend

\* the two loops run on: requests.post has a timeout, so that every turn ends
SpecSend == InitSend /\ [][NextSend]_vars /\ WF_vars(NextSend)

(***************************************************************************)
(* SpecReader: read_credito_bancario_fast / read_sheet_fast on a worksheet *)
(***************************************************************************)
\* the number of blank rows in a row at which the loop breaks
EMPTY_STREAK_LIMIT == 20

\* the k-th row under the header when it holds a value: a cell with the
\* row's number and an empty cell
DataRow(k) == <<IntCell(k), None>>

\* a row without a value: empty cells, or a cell of spaces and an empty cell
BlankRow(kind) == IF kind = "spaces" THEN <<Text(<<" ", " ">>), None>> ELSE <<None, None>>

\* all(x is None or str(x).strip() == "" for x in row)
IsBlankRow(row) == \A k \in 1..Len(row) : row[k] = None \/ Strip(PyStr(row[k])) = <<>>

\* the rows under the header: a data rows, b blank rows, c data rows, e blank
\* rows, f data rows
Worksheet(a, b, c, e, f, kind) ==
    [k \in 1..(a + b + c + e + f) |->
        IF k <= a THEN DataRow(k)
        ELSE IF k <= a + b THEN BlankRow(kind)
        ELSE IF k <= a + b + c THEN DataRow(k)
        ELSE IF k <= a + b + c + e THEN BlankRow(kind)
        ELSE DataRow(k)]

Worksheets ==
    { Worksheet(a, b, c, e, f, kind) :
        a \in 0..MaxData, b \in {0, 1} \cup (MaxBlank - 3)..MaxBlank, c \in 0..MaxData,
        e \in {0, MaxBlank}, f \in 0..1, kind \in {"none", "spaces"} }

InitReader ==
    /\ variant \in {"destaques", "destaques3"}
    /\ ws \in Worksheets
    /\ position = 0
    /\ empty_streak = 0
    /\ data = <<>>
    /\ pc = "reading"
    /\ rows = <<>>
    /\ today \in Todays
    /\ has_prazo = TRUE
    /\ top_n = 1
    /\ df = <<>>
    /\ blocks = <<>>
    /\ col = <<>>
    /\ fn = "off"
    /\ out = <<>>
    /\ ColsIdle
    /\ RunIdle
    /\ FiltersOff
    /\ RerunIdle
    /\ SendIdle

\* IterRow appending the blank rows that do not end the loop
IterRow_appends_blank ==
    /\ pc = "reading"
    /\ position < Len(ws)
    /\ position' = position + 1
    /\ LET row == ws[position + 1]
       IN IF IsBlankRow(row)
          THEN /\ empty_streak' = empty_streak + 1
               /\ data' = IF empty_streak + 1 >= EMPTY_STREAK_LIMIT THEN data ELSE Append(data, row)
               /\ pc' = IF empty_streak + 1 >= EMPTY_STREAK_LIMIT THEN "returned" ELSE "reading"
          ELSE /\ empty_streak' = 0
               /\ data' = Append(data, row)
               /\ pc' = "reading"
    /\ UNCHANGED <<variant, ws, rows, today, has_prazo, top_n, df, blocks, parseVars, colsVars,
                   runVars, settingVars, warnings, rerunVars, sendVars>>

\* IterRow without the reset of the streak on a row with a value
IterRow_no_reset ==
    /\ pc = "reading"
    /\ position < Len(ws)
    /\ position' = position + 1
    /\ LET row == ws[position + 1]
       IN IF IsBlankRow(row)
          THEN /\ empty_streak' = empty_streak + 1
               /\ data' = data
               /\ pc' = IF empty_streak + 1 >= EMPTY_STREAK_LIMIT THEN "returned" ELSE "reading"
          ELSE /\ empty_streak' = empty_streak
               /\ data' = Append(data, row)
               /\ pc' = "reading"
    /\ UNCHANGED <<variant, ws, rows, today, has_prazo, top_n, df, blocks, parseVars, colsVars,
                   runVars, settingVars, warnings, rerunVars, sendVars>>

\* one turn of the for loop over ws.iter_rows: a blank row adds one to the
\* streak and, at the limit, breaks the loop, after which the function
\* returns; a row with a value resets the streak and is appended
IterRow ==
    /\ pc = "reading"
    /\ position < Len(ws)
    /\ position' = position + 1
    /\ LET row == ws[position + 1]
       IN IF IsBlankRow(row)
          THEN /\ empty_streak' = empty_streak + 1
               /\ data' = data
               /\ pc' = IF empty_streak + 1 >= EMPTY_STREAK_LIMIT THEN "returned" ELSE "reading"
          ELSE /\ empty_streak' = 0
               /\ data' = Append(data, row)
               /\ pc' = "reading"
    /\ UNCHANGED <<variant, ws, rows, today, has_prazo, top_n, df, blocks, parseVars, colsVars,
                   runVars, settingVars, warnings, rerunVars, sendVars>>

\* iter_rows has no row left: the loop ends and the function returns
EndOfSheet ==
    /\ pc = "reading"
    /\ position = Len(ws)
    /\ pc' = "returned"
    /\ UNCHANGED <<variant, rows, today, has_prazo, top_n, df, blocks, parseVars, colsVars,
                   runVars, settingVars, warnings, rerunVars, readerVars, sendVars>>

NextReader == IterRow \/ EndOfSheet

\* the for loop runs on: a turn that can be taken is taken
SpecReader == InitReader /\ [][NextReader]_vars /\ WF_vars(NextReader)

(***************************************************************************)
(* SpecFormat: the rate formatter applied to one rate of one class         *)
(***************************************************************************)
\* the rates m / 10^e with m in -MaxNeg .. MaxMant and e in 0 .. MaxFrac, and
\* rates of a thousand and more: 1234.5, 12345, 1234567.89
RateValues ==
    {Num(m, e) : m \in (-MaxNeg)..MaxMant, e \in 0..MaxFrac}
    \cup {Num(12345, 1), Num(12345, 0), Num(123456789, 2), Num(999995, 3), None}

InitFormat ==
    /\ variant \in {"destaques", "destaques3"}
    /\ col \in {<<v>> : v \in RateValues}
    /\ fn = "none"
    /\ out = <<>>
    /\ rows = <<>>
    /\ today = 0
    /\ has_prazo = TRUE
    /\ pc = "off"
    /\ df = <<>>
    /\ top_n = 1
    /\ blocks = <<>>
    /\ ColsIdle
    /\ RunIdle
    /\ FiltersOff
    /\ RerunIdle
    /\ SendIdle
    /\ ReaderIdle

\* df.apply(lambda r: format_rate_for_display(r["taxa_num"], r["indexador_pad"]), axis=1)
\* on a column of parsed rates, every row of the class indexador
ApplyFormatRate ==
    /\ fn = "none"
    /\ \E indexador \in {POS_CDI, PRE, IPCA, None}, up \in BOOLEAN :
          out' = [i \in 1..Len(col) |->
                    [rate |-> col[i], idx |-> indexador,
                     txt |-> format_rate_for_display(col[i], indexador, up)]]
    /\ fn' = "format_rate_for_display"
    /\ UNCHANGED <<variant, col, pipeVars, colsVars, runVars, settingVars, warnings, rerunVars, readerVars, sendVars>>

NextFormat == ApplyFormatRate

SpecFormat == InitFormat /\ [][NextFormat]_vars

(***************************************************************************)
(* SpecCols: find_col applied to the headers of one sheet                  *)
(***************************************************************************)
H_TX == <<"T", "x">>
H_TAXA == <<"T", "a", "x", "a">>
H_TAXA_UP == <<"T", "A", "X", "A">>
H_TAXA_PORTAL == <<"T", "a", "x", "a", " ", "P", "o", "r", "t", "a", "l">>
H_PRAZO == <<"P", "r", "a", "z", "o">>
H_PRAZO_MEDIO == <<"P", "r", "a", "z", "o", " ", "m", e_acute, "d", "i", "o">>
H_EMISSOR == <<"E", "m", "i", "s", "s", "o", "r">>

HeaderPool == {H_TX, H_TAXA, H_TAXA_UP, H_TAXA_PORTAL, H_PRAZO, H_PRAZO_MEDIO, H_EMISSOR}

\* the header rows: up to MaxCols different column names, in any order
Headers ==
    UNION { {h \in [1..k -> HeaderPool] : \A a, b \in 1..k : h[a] = h[b] => a = b} :
            k \in 0..MaxCols }

\* alias lists of the scripts' find_col calls
AliasLists ==
    { <<H_TX, H_TAXA>>, <<H_TAXA>>, <<H_PRAZO>>, <<H_TAXA_PORTAL, H_TAXA>>, <<H_EMISSOR>> }

InitCols ==
    /\ variant \in Variants
    /\ header \in Headers
    /\ candidates \in AliasLists
    /\ found = <<"pending">>
    /\ col = <<>>
    /\ fn = "off"
    /\ out = <<>>
    /\ rows = <<>>
    /\ today = 0
    /\ has_prazo = TRUE
    /\ pc = "off"
    /\ df = <<>>
    /\ top_n = 1
    /\ blocks = <<>>
    /\ RunIdle
    /\ FiltersOff
    /\ RerunIdle
    /\ SendIdle
    /\ ReaderIdle

\* col_x = find_col(df, [...])
ApplyFindCol ==
    /\ found = <<"pending">>
    /\ found' = FindColOf(variant, header, candidates)
    /\ UNCHANGED <<variant, header, candidates, parseVars, pipeVars, runVars, settingVars, warnings, rerunVars, readerVars, sendVars>>

NextCols == ApplyFindCol

SpecCols == InitCols /\ [][NextCols]_vars

(***************************************************************************)
(* SpecIngest: one run of a script from the upload to its last output      *)
(***************************************************************************)
SHEET_BANCARIO == "Credito bancario"
SHEET_PUBLICOS == "Titulos Publicos"

BancRoles == {"emissor", "produto", "indexador", "taxa", "prazo", "venc", "min"}
PubRoles == {"titulo", "venc", "taxa"}

\* the tabs of script v, in the order they are run
Tabs(v) == IF v = "destaques3" THEN <<"banc", "pub">> ELSE <<"banc">>

SheetOf(tab) == IF tab = "banc" THEN SHEET_BANCARIO ELSE SHEET_PUBLICOS

\* the list "missing" of the tab, as a set of messages
Missing(v, tab, cols) ==
    IF tab = "pub" THEN PubRoles \ cols
    ELSE IF v = "destques"
    THEN ({"indexador", "taxa"} \ cols)
         \cup (IF "prazo" \notin cols /\ "venc" \notin cols THEN {"prazo ou venc"} ELSE {})
    ELSE ({"emissor", "produto", "indexador", "taxa", "min", "venc"} \ cols)
         \cup (IF "prazo" \notin cols /\ "venc" \notin cols THEN {"prazo ou venc"} ELSE {})

\* what a tab renders once its frame is ready
Outputs(tab) ==
    IF tab = "banc" THEN <<"preview banc", "blocks banc", "message banc">>
    ELSE <<"preview pub", "message pub">>

InitIngest ==
    /\ variant \in Variants
    /\ workbook \in SUBSET {SHEET_BANCARIO, SHEET_PUBLICOS}
    /\ resolved \in [banc : SUBSET BancRoles, pub : SUBSET PubRoles]
    /\ shown = <<>>
    /\ failure = "none"
    /\ pc = <<"read", 1>>
    /\ col = <<>>
    /\ fn = "off"
    /\ out = <<>>
    /\ rows = <<>>
    /\ today = 0
    /\ has_prazo = TRUE
    /\ df = <<>>
    /\ top_n = 1
    /\ blocks = <<>>
    /\ ColsIdle
    /\ FiltersOff
    /\ RerunIdle
    /\ SendIdle
    /\ ReaderIdle

\* read_sheet_fast / read_credito_bancario_fast / pd.read_excel: the
\* ValueError of an absent sheet ends the run, reported by st.error in
\* rf_destques.py and by the uncaught exception in the other scripts
ReadSheet ==
    /\ pc[1] = "read"
    /\ IF SheetOf(Tabs(variant)[pc[2]]) \in workbook
       THEN pc' = <<"detect", pc[2]>> /\ failure' = failure
       ELSE /\ pc' = <<"stopped", pc[2]>>
            /\ failure' = IF variant = "destques" THEN "st.error" ELSE "exception"
    /\ UNCHANGED <<variant, rows, today, has_prazo, df, top_n, blocks, parseVars, colsVars,
                   workbook, resolved, shown, settingVars, warnings, rerunVars, readerVars, sendVars>>

\* the find_col calls of the tab and the test of "missing": st.error and
\* st.stop() when a required role is missing
DetectColumns ==
    /\ pc[1] = "detect"
    /\ IF Missing(variant, Tabs(variant)[pc[2]], resolved[Tabs(variant)[pc[2]]]) = {}
       THEN pc' = <<"render", pc[2]>> /\ failure' = failure
       ELSE pc' = <<"stopped", pc[2]>> /\ failure' = "st.error"
    /\ UNCHANGED <<variant, rows, today, has_prazo, df, top_n, blocks, parseVars, colsVars,
                   workbook, resolved, shown, settingVars, warnings, rerunVars, readerVars, sendVars>>

\* the rest of the tab: preview, tables and messages; then the next tab
RenderTab ==
    /\ pc[1] = "render"
    /\ shown' = shown \o Outputs(Tabs(variant)[pc[2]])
    /\ pc' = IF pc[2] < Len(Tabs(variant)) THEN <<"read", pc[2] + 1>> ELSE <<"done", pc[2]>>
    /\ UNCHANGED <<variant, rows, today, has_prazo, df, top_n, blocks, parseVars, colsVars,
                   workbook, resolved, failure, settingVars, warnings, rerunVars, readerVars, sendVars>>

NextIngest == ReadSheet \/ DetectColumns \/ RenderTab

SpecIngest == InitIngest /\ [][NextIngest]_vars

(***************************************************************************)
(* Claims on the helpers (SpecParse)                                       *)
(***************************************************************************)
\* the days handed to categorize_horizon for cell i of the column
DaysOf(i) == to_numeric_series(col)[i]

\* C4: categorize_horizon maps null to null, days <= 360 to Short,
\* 360 < days <= 1080 to Medium and days > 1080 to Long (so 360 is Short, 361
\* Medium, 1080 Medium, 1081 Long), every non-null input gets exactly one
\* class, and the scripts' variants of the function agree.
C4_HorizonClasses ==
    fn = "categorize_horizon" =>
        \A i \in 1..Len(col) :
            LET d == DaysOf(i)
            IN /\ IsNull(d) => out[i] = None
               /\ IsNum(d) /\ d.m <= 360 * Pow10(d.e) => out[i] = CURTO
               /\ IsNum(d) /\ d.m > 360 * Pow10(d.e) /\ d.m <= 1080 * Pow10(d.e)
                    => out[i] = MEDIO
               /\ IsNum(d) /\ d.m > 1080 * Pow10(d.e) => out[i] = LONGO
               /\ IsNum(d) => out[i] \in {CURTO, MEDIO, LONGO}
               /\ categorize_horizon(d) = categorize_horizon_destques(d)

\* the four boundary days of C4 have been classified, in the script whose
\* Medium test is written 360 < days <= 1080
C4_Witness ==
    /\ fn = "categorize_horizon"
    /\ variant = "destques"
    /\ col = <<IntCell(1080)>>
    /\ out = <<MEDIO>>

\* the priority IPCA > PostCDI > Pre on the uppercased text; "DI" alone
\* counts for PostCDI only in the broadest variant (rf_destques.py)
RefClassify(v, raw) ==
    IF raw.t = "none" THEN None
    ELSE LET t == Upper(PyStr(raw))
             has(w) == Contains(t, w)
         IN CASE has(<<"I", "P", "C", "A">>) -> IPCA
              [] ~has(<<"I", "P", "C", "A">>)
                 /\ (\/ has(<<"C", "D", "I">>) \/ has(<<"P", O_ACUTE, "S">>)
                     \/ has(<<"P", "O", "S">>)
                     \/ (v = "destques" /\ has(<<"D", "I">>))) -> POS_CDI
              [] OTHER ->
                    IF \/ has(<<"P", "R", E_ACUTE>>) \/ has(<<"P", "R", "E">>)
                       \/ has(<<"F", "I", "X", "A">>)
                    THEN PRE ELSE None

\* C6: classify_indexer equals the reference with priority IPCA > PostCDI >
\* Pre: a text containing "IPCA" yields IPCA whatever else it contains.
C6_ClassifyPriority ==
    fn = "classify_indexer" =>
        \A i \in 1..Len(col) : out[i] = RefClassify(variant, col[i])

\* C7: a native numeric cell is returned unchanged by to_numeric_series and
\* by parse_rate_value, also in a mixed-type column and for fractions.
C7_NativeUnchanged ==
    fn \in {"to_numeric_series", "parse_rate_value"} =>
        \A i \in 1..Len(col) : IsNative(col[i]) => out[i] = PyFloat(col[i])

NotDot(c) == c # "."

\* the text with every "." removed and then every "," turned into "."
RefNormalize(s) ==
    LET x == SelectSeq(Strip(s), NotDot)
    IN [i \in 1..Len(x) |-> IF x[i] = "," THEN "." ELSE x[i]]

\* w is a signed-or-unsigned decimal numeral: -?digits(.digits)?
IsNumeralStr(w) ==
    LET b == IF w # <<>> /\ Head(w) = "-" THEN Tail(w) ELSE w
    IN /\ b # <<>>
       /\ \A k \in 1..Len(b) : b[k] \in Digits \cup {"."}
       /\ CountChar(b, ".") <= 1
       /\ IsDigit(b[1])
       /\ IsDigit(b[Len(b)])

\* <<i, j>> bounds the first numeral of n: nothing before it holds a digit, a
\* sign right before its digits belongs to it, and it cannot be made longer
IsFirstNumeral(n, i, j) ==
    /\ IsNumeralStr(SubSeq(n, i, j))
    /\ \A k \in 1..(i - 1) : ~IsDigit(n[k])
    /\ IsDigit(n[i]) => (i = 1 \/ n[i - 1] # "-")
    /\ \A j2 \in (j + 1)..Len(n) : ~IsNumeralStr(SubSeq(n, i, j2))

RefParseNumber(s) ==
    LET n == RefNormalize(s)
    IN IF \A k \in 1..Len(n) : ~IsDigit(n[k]) THEN None
       ELSE LET p == CHOOSE p \in (1..Len(n)) \X (1..Len(n)) : IsFirstNumeral(n, p[1], p[2])
            IN PyFloatStr(SubSeq(n, p[1], p[2]))

\* C8: on a text cell to_numeric_series removes every ".", then turns ","
\* into ".", then returns the first signed-or-unsigned decimal numeral, and
\* null when the text holds none: "1.234,56" gives 1234.56, "110% CDI" gives
\* 110 and "abc" gives null.
C8_ParseNumberText ==
    fn = "to_numeric_series" /\ col[1].t = "text" =>
        /\ out[1] = RefParseNumber(col[1].s)
        /\ col[1].s = <<"1", ".", "2", "3", "4", ",", "5", "6">> => out[1] = Num(123456, 2)
        /\ col[1].s = <<"1", "1", "0", "%", " ", "C", "D", "I">> => out[1] = Num(110, 0)
        /\ col[1].s = <<"a", "b", "c">> => out[1] = None

\* "1.234,56" has been parsed to 1234.56
C8_Witness ==
    /\ fn = "to_numeric_series"
    /\ col = <<Text(<<"1", ".", "2", "3", "4", ",", "5", "6">>)>>
    /\ out = <<Num(123456, 2)>>

\* the rate text with "%" and the suffix tokens the scripts strip removed
RateTokensStripped(s) ==
    LET s1 == Replace(Upper(Strip(s)), <<"%">>, <<>>)
        s2 == Replace(s1, <<"A", ".", "A", ".">>, <<>>)
        s3 == Replace(s2, <<"A", "A">>, <<>>)
        s4 == Replace(s3, <<"A", " ", "A">>, <<>>)
    IN Replace(s4, <<" ">>, <<>>)

\* C9: on every text rate cell parse_rate_value gives, once "%" and the
\* suffix tokens are stripped, what to_numeric_series gives on the same text.
C9_RateAsNumber ==
    fn = "parse_rate_value" =>
        \A i \in 1..Len(col) :
            col[i].t = "text" =>
                out[i] = to_numeric_text(Text(RateTokensStripped(col[i].s)))

\* C10: parse_rate_value returns a number or null on every cell; no
\* exception leaves it.
C10_RateNeverRaises ==
    fn = "parse_rate_value" => \A i \in 1..Len(col) : out[i] # Raise

\* whether txt is digits, in groups of three split by "." when grouped, then
\* "," and two digits and "%", after an optional "-"
IsRateText(txt, grouped) ==
    LET b == IF txt # <<>> /\ Head(txt) = "-" THEN Tail(txt) ELSE txt
        n == Len(b)
    IN /\ n >= 5
       /\ b[n] = "%" /\ IsDigit(b[n - 1]) /\ IsDigit(b[n - 2]) /\ b[n - 3] = ","
       /\ \A k \in 1..(n - 4) :
             IF grouped /\ (n - 4 - k) % 4 = 3 /\ k > 1 THEN b[k] = "." ELSE IsDigit(b[k])
       /\ n - 4 > 1 => b[1] # "0"

\* the distance between the numbers a and b is at most half a hundredth
WithinHalfHundredth(a, b) ==
    LET e == IF a.e > b.e THEN a.e ELSE b.e
        x == a.m * Pow10(e - a.e)
        y == b.m * Pow10(e - b.e)
    IN 200 * Abs(x - y) <= Pow10(e)

\* C11: format_rate_for_display gives "" for a null rate; otherwise it
\* multiplies the value by 100 exactly when value <= 2 for Pos (CDI) and
\* exactly when value <= 1.5 for the other classes, and writes the result
\* with 2 decimals, "," as decimal separator, a trailing "%" and "." between
\* groups of thousands only for Pos (CDI): read back as a number, the text is
\* the scaled value rounded to hundredths.  (1.10, Pos (CDI)) gives
\* "110,00%" and (0.072, IPCA) gives "7,20%".
C11_FormatRate ==
    fn = "format_rate_for_display" =>
        \A i \in 1..Len(col) :
            LET v == out[i].rate
                txt == out[i].txt
                limit == IF out[i].idx = POS_CDI THEN Num(2, 0) ELSE Num(15, 1)
                scaled == IF NumLe(v, limit) THEN Num(v.m * 100, v.e) ELSE v
                back == to_numeric_text(Text(txt))
            IN /\ IsNull(v) <=> txt = <<>>
               /\ IsNum(v) =>
                     /\ IsRateText(txt, out[i].idx = POS_CDI)
                     /\ IsNum(back) /\ WithinHalfHundredth(back, scaled)
                     /\ (Head(txt) = "-") <=> scaled.m < 0
               /\ v = Num(11, 1) /\ out[i].idx = POS_CDI
                     => txt = <<"1", "1", "0", ",", "0", "0", "%">>
               /\ v = Num(72, 3) /\ out[i].idx = IPCA => txt = <<"7", ",", "2", "0", "%">>

\* 1.10 of class Pos (CDI) has been written "110,00%", and 1234.5 of class
\* Pos (CDI) with its thousands grouped
C11_Witness ==
    /\ fn = "format_rate_for_display"
    /\ \/ out = <<[rate |-> Num(11, 1), idx |-> POS_CDI,
                    txt |-> <<"1", "1", "0", ",", "0", "0", "%">>]>>
       \/ out = <<[rate |-> Num(12345, 1), idx |-> POS_CDI,
                    txt |-> <<"1", ".", "2", "3", "4", ",", "5", "0", "%">>]>>

(***************************************************************************)
(* Claims on column detection (SpecCols)                                   *)
(***************************************************************************)
\* header k equals alias a, ignoring case
EqualsAlias(k, a) == Lower(header[k]) = Lower(candidates[a])

\* header k contains alias a, ignoring case
ContainsAlias(k, a) == Contains(Lower(header[k]), Lower(candidates[a]))

\* C12: find_col matches ignoring case, and an exact match wins over a
\* substring match: when some header equals the first alias that matches any
\* header, find_col returns a header equal to that alias, not one that only
\* contains it, whatever the order of the headers.
C12_ExactWins ==
    found \notin {<<"pending">>, <<"off">>} =>
        /\ found = NoCol <=>
              \A a \in 1..Len(candidates), k \in 1..Len(header) : ~ContainsAlias(k, a)
        /\ \A a \in 1..Len(candidates) :
              /\ \A b \in 1..(a - 1), k \in 1..Len(header) : ~ContainsAlias(k, b)
              /\ \E k \in 1..Len(header) : EqualsAlias(k, a)
              => /\ found # NoCol
                 /\ Lower(found[2]) = Lower(candidates[a])

\* C13: when a required sheet is absent or a required role is not
\* resolved, the run ends with no partial output: nothing has been rendered
\* when the failure is reported, in the two-sheet script too.
C13_NoPartialOutput ==
    failure # "none" => shown = <<>>

(***************************************************************************)
(* Claims on the run (Spec)                                                *)
(***************************************************************************)
InBucket(r, b) == r.indexador_pad = b.idx /\ r.horizonte = b.hz

RowsOf(recs) == {recs[i].row : i \in 1..Len(recs)}

\* what the bucket's column shows: st.info with the script's text when the
\* block is empty, st.dataframe with the block's rows otherwise
RenderBlock(v, b) ==
    IF b.recs = <<>>
    THEN [call |-> "st.info",
          body |-> IF v = "destques" THEN "Sem ativos nesse bloco." ELSE "Sem ativos"]
    ELSE [call |-> "st.dataframe", body |-> b.recs]

\* C18: a bucket with no qualifying record yields the empty sequence and the
\* run still completes: once the frame is built the nine buckets can always
\* be computed, whatever number of them is empty, and an empty bucket is
\* shown as an empty bucket (the "Sem ativos" note), never as an error.
C18_EmptyBucket ==
    /\ pc = "transformed" => ENABLED Display
    /\ pc = "done" =>
          /\ Len(blocks) = 9
          /\ \A k \in 1..9 :
                (\A j \in 1..Len(df) : ~InBucket(df[j], blocks[k])) =>
                   /\ blocks[k].recs = <<>>
                   /\ RenderBlock(variant, blocks[k]).call = "st.info"

\* a finished run with an empty bucket next to a bucket that holds a record,
\* and a finished run whose nine buckets are all empty
C18_Witness ==
    /\ pc = "done"
    /\ \E k \in 1..9 : blocks[k].recs = <<>> /\ RenderBlock(variant, blocks[k]).call = "st.info"
    /\ \E k \in 1..9 : RenderBlock(variant, blocks[k]).call = "st.dataframe"

C18_AllEmpty ==
    pc = "done" /\ Len(rows) > 0 /\ \A k \in 1..9 : blocks[k].recs = <<>>

C19_BucketsMoved ==
    runs >= 2 /\ pc = "message" /\ blocks # previous.blocks

BlankRunEndsAt(j) ==
    /\ j >= EMPTY_STREAK_LIMIT /\ j <= Len(ws)
    /\ \A k \in (j - EMPTY_STREAK_LIMIT + 1)..j : IsBlankRow(ws[k])

HasBlankRun == \E j \in 1..Len(ws) : BlankRunEndsAt(j)

\* the row at which the first such run is complete, the last row when there
\* is none
StopRow ==
    IF HasBlankRun
    THEN CHOOSE j \in 1..Len(ws) : BlankRunEndsAt(j) /\ \A i \in 1..(j - 1) : ~BlankRunEndsAt(i)
    ELSE Len(ws)

RECURSIVE ValueRows(_)
ValueRows(n) ==
    IF n = 0 THEN <<>>
    ELSE ValueRows(n - 1) \o (IF IsBlankRow(ws[n]) THEN <<>> ELSE <<ws[n]>>)

\* the reader never goes past the first run of blank rows and returns the
\* rows with a value that come before it, in sheet order
ReaderStops ==
    /\ position <= StopRow
    /\ \A i \in 1..Len(data) : data[i][1].m <= StopRow
    /\ pc = "returned" => position = StopRow /\ data = ValueRows(StopRow)

\* C20: the sheet reader stops at the first run of 20 blank rows in a row
\* under the header: no row placed after such a run is ever ingested, and
\* the reader returns for every finite sheet.
C20_ReaderStops == [](pc \in {"reading", "returned"} => ReaderStops) /\ <>(pc = "returned")

\* the reader has returned on a sheet with rows after a run of 20 blank rows,
\* having taken the rows before the run, which came after a shorter run
C20_Witness ==
    /\ pc = "returned"
    /\ HasBlankRun
    /\ StopRow < Len(ws)
    /\ \E k \in (StopRow + 1)..Len(ws) : ~IsBlankRow(ws[k])
    /\ data # <<>>
    /\ \E k \in 1..Len(data) : data[k][1].m > EMPTY_STREAK_LIMIT - 1


\* C1: for every bucket and every n, top_n_block returns at most n records
\* of the frame, each matching both bucket keys, in non-increasing taxa_num
\* order, and no record of the bucket left out has a taxa_num strictly
\* greater than a returned one.
C1_TopN ==
    pc = "done" =>
        /\ Len(blocks) = 9
        /\ \A k \in 1..9 :
              LET b == blocks[k]
                  recs == b.recs
              IN /\ b.idx = BucketKey(variant, k).idx /\ b.hz = BucketKey(variant, k).hz
                 /\ Len(recs) <= top_n
                 /\ \A i \in 1..Len(recs) :
                       /\ \E j \in 1..Len(df) : df[j] = recs[i]
                       /\ InBucket(recs[i], b)
                 /\ \A i, j \in 1..Len(recs) : i < j => recs[i].row # recs[j].row
                 /\ \A i \in 1..(Len(recs) - 1) :
                       recs[i + 1].taxa_num.m * Pow10(recs[i].taxa_num.e)
                          <= recs[i].taxa_num.m * Pow10(recs[i + 1].taxa_num.e)
                 /\ \A j \in 1..Len(df) :
                       InBucket(df[j], b) /\ df[j].row \notin RowsOf(recs) =>
                          \A i \in 1..Len(recs) :
                             df[j].taxa_num.m * Pow10(recs[i].taxa_num.e)
                                <= recs[i].taxa_num.m * Pow10(df[j].taxa_num.e)

\* a bucket of two records with different rates has been cut to its best one
C1_Witness ==
    /\ pc = "done"
    /\ top_n = 1
    /\ \E k \in 1..9 :
          /\ Len(blocks[k].recs) = 1
          /\ \E j \in 1..Len(df) :
                /\ InBucket(df[j], blocks[k])
                /\ NumLt(df[j].taxa_num, blocks[k].recs[1].taxa_num)

\* C2: records of a bucket with equal taxa_num come out of top_n_block in
\* their original row order, so the result is determined by the row order.
C2_StableTies ==
    pc = "done" =>
        \A k \in 1..9 :
            LET recs == blocks[k].recs
            IN /\ \A i, j \in 1..Len(recs) :
                     i < j /\ recs[i].taxa_num = recs[j].taxa_num => recs[i].row < recs[j].row
               /\ \A j \in 1..Len(df) :
                     InBucket(df[j], blocks[k]) /\ df[j].row \notin RowsOf(recs) =>
                        \A i \in 1..Len(recs) :
                           recs[i].taxa_num = df[j].taxa_num => recs[i].row < df[j].row

\* what the three required keys of each sheet row come to, computed from
\* the cells of the row
Keys ==
    LET prazo == IF has_prazo THEN to_numeric_series(Column("prazo"))
                 ELSE [i \in 1..Len(rows) |-> DaysToMaturity(rows[i].venc)]
    IN [i \in 1..Len(rows) |->
          [idx |-> ClassifyOf(variant, rows[i].indexador),
           hz |-> HorizonOf(variant, prazo[i]),
           rate |-> ParseRateOf(variant, rows[i].taxa)]]

AllKeys(k) == k.idx # None /\ k.hz # None /\ k.rate # None

C5_NegativeTermExcluded ==
    pc = "done" =>
        \A k \in 1..9 : \A i \in 1..Len(blocks[k].recs) :
            ~(blocks[k].recs[i].prazo_dias.m < 0)

(***************************************************************************)
(* Claims on the optional filters (SpecFilter)                             *)
(***************************************************************************)
\* the rating filter and the min app filter of the run, as set in the sidebar
RatingStage(x) == RatingFilterOf(variant, x, use_rating_filter, rating_min, has_rating)
MinAppStage(x) == MinAppFilterOf(variant, x, use_min_app_filter, max_min_app)

\* the frame of the run with both optional filters switched off
Unfiltered == Filtered(variant, Derived, FALSE, rating_min, has_rating, FALSE, max_min_app)

\* the frame of the run with only the rating filter switched off
WithoutRating ==
    Filtered(variant, Derived, FALSE, rating_min, has_rating, use_min_app_filter, max_min_app)

RatingActive == use_rating_filter /\ has_rating
MinAppActive == use_min_app_filter /\ max_min_app > 0

\* the place of the text in the table AAA=1 .. D=20 once uppercased and
\* stripped of whitespace, 0 when it is not in the table
TableScore(txt) ==
    LET NotSpace(c) == c # " "
        t == SelectSeq(Upper(txt), NotSpace)
    IN IF \E k \in 1..20 : rating_map[k] = t
       THEN CHOOSE k \in 1..20 : rating_map[k] = t
       ELSE 0

\* C14: with the rating filter active and a threshold text that is not in
\* the rating table, a warning is surfaced and the rows passed on are exactly
\* those of the run with the rating filter switched off.
C14_UnknownThreshold ==
    pc \in {"transformed", "done"} /\ RatingActive /\ TableScore(rating_min) = 0 =>
        /\ warnings # {}
        /\ df = WithoutRating

\* C15: with the rating filter active and a threshold of the table, the
\* records kept are exactly those whose rating is in the table with a score
\* at or below the threshold's; worse, unknown and empty ratings are removed.
C15_RatingFloor ==
    pc = "transformed" /\ RatingActive /\ TableScore(rating_min) > 0 =>
        LET base == WithoutRating
            ok == {base[i].row : i \in {k \in 1..Len(base) :
                      /\ base[k].rating.t = "text"
                      /\ TableScore(base[k].rating.s) \in 1..TableScore(rating_min)}}
        IN df = SelectRows(base, ok)

\* with threshold " a-" a row rated worse, unknown or empty has been removed
\* and a row rated "a-" or better kept
C15_Witness ==
    /\ pc = "transformed"
    /\ RatingActive /\ rating_min = <<" ", "a", "-">> /\ ~MinAppActive
    /\ Len(rows) = 2 /\ Len(df) = 1
    /\ Len(WithoutRating) = 2

\* s is t with some entries left out
IsSubSeq(x, y) ==
    /\ \A i \in 1..Len(x) : \E j \in 1..Len(y) : y[j] = x[i]
    /\ \A i, j \in 1..Len(x) : i < j => x[i].row < x[j].row

\* C16: each optional filter returns a subset of its input in unchanged
\* order, the two give the same records in either order, and the run's
\* frame is that result.
C16_FiltersCommute ==
    pc = "transformed" =>
        LET base == Unfiltered
        IN /\ IsSubSeq(RatingStage(base), base)
           /\ IsSubSeq(MinAppStage(base), base)
           /\ IsSubSeq(MinAppStage(RatingStage(base)), RatingStage(base))
           /\ IsSubSeq(RatingStage(MinAppStage(base)), MinAppStage(base))
           /\ MinAppStage(RatingStage(base)) = RatingStage(MinAppStage(base))
           /\ df = MinAppStage(RatingStage(base))

\* both filters are active and each has removed a row the other kept
C16_Witness ==
    /\ pc = "transformed"
    /\ RatingActive /\ TableScore(rating_min) > 0 /\ MinAppActive
    /\ Len(Unfiltered) = 2
    /\ Len(RatingStage(Unfiltered)) = 1
    /\ Len(MinAppStage(Unfiltered)) = 1
    /\ df = <<>>

\* the rates of the records, in order
RatesOf(recs) == [i \in 1..Len(recs) |-> recs[i].taxa_num]

\* the possible contents of bucket k of allBuckets on the unfiltered frame
\* base, each then filtered inside the bucket
BucketThenFilter(base, k) ==
    { MinAppStage(RatingStage(b)) :
        b \in top_n_block(base, BucketKey(variant, k).idx, BucketKey(variant, k).hz, top_n) }

\* C17 as stated: filtering and then computing the buckets gives the bucket
\* contents, in the same rank order, of computing the buckets first and then
\* filtering inside each bucket.
C17_FilterThenBucket ==
    pc = "done" =>
        LET base == Unfiltered
        IN \A k \in 1..9 : blocks[k].recs \in BucketThenFilter(base, k)

\* C17 amended: filtering inside each bucket leaves the relative rank order
\* unchanged and gives a leading part of the bucket computed from the filtered
\* records; the two hold the same records when the bucket holds at most n
\* records before filtering.
C17_FilterInsideBucketIsPrefix ==
    pc = "done" =>
        LET base == Unfiltered
        IN \A k \in 1..9 : \A f \in BucketThenFilter(base, k) :
              /\ Len(f) <= Len(blocks[k].recs)
              /\ RatesOf(f) = SubSeq(RatesOf(blocks[k].recs), 1, Len(f))
              /\ Cardinality({j \in 1..Len(base) : InBucket(base[j], blocks[k])}) <= top_n
                 => RowsOf(f) = RowsOf(blocks[k].recs)

\* a cap has removed the best record of a bucket cut to one record: the
\* filtered bucket shows the next record, the bucket filtered afterwards none
C17_Witness ==
    /\ pc = "done"
    /\ top_n = 1
    /\ MinAppActive
    /\ \E k \in 1..9 :
          /\ Len(blocks[k].recs) = 1
          /\ <<>> \in BucketThenFilter(Unfiltered, k)


(***************************************************************************)
(* Claims on the messages (SpecMessage)                                    *)
(***************************************************************************)
\* the indexer of msg_pos, msg_pre and msg_ipca
MsgIndexer == <<POS_CDI, PRE, IPCA>>

\* the places of the part that opens the section of a horizon
HzPlaces(m, hz_title) == {i \in 1..Len(m) : m[i].kind = "horizon" /\ m[i].label = hz_title}

\* the parts of a horizon's section: its title and what follows it up to the
\* next horizon title
SectionParts(m, hz_title) ==
    IF HzPlaces(m, hz_title) = {} THEN <<>>
    ELSE LET i == CHOOSE x \in HzPlaces(m, hz_title) : TRUE
             later == {j \in (i + 1)..Len(m) : m[j].kind = "horizon"}
             last == IF later = {} THEN Len(m)
                     ELSE (CHOOSE j \in later : \A x \in later : j <= x) - 1
         IN SubSeq(m, i, last)

\* the toggle in the two-sheet scripts: an empty horizon section is left out
\* when it is on and is its title and the placeholder when it is off, and a
\* section with records is the same under both settings
C21_TwoSheetToggle ==
    pc = "message" /\ variant = "destaques3" =>
        \A i \in 1..3, h \in 1..3 :
            LET m == msg[i]
                hz_title == hz_pairs[h].hz_title
                empty == BucketRows(df, MsgIndexer[i], hz_pairs[h].hz_label) = <<>>
            IN /\ empty /\ mostrar_apenas_blocos_com_ativos => HzPlaces(m, hz_title) = {}
               /\ empty /\ ~mostrar_apenas_blocos_com_ativos =>
                     SectionParts(m, hz_title) =
                        << Part("horizon", hz_title, <<>>),
                           Part("placeholder", "- (sem ativos hoje)", <<>>) >>
               /\ ~empty =>
                     /\ Len(SectionParts(m, hz_title)) >= 2
                     /\ \E other \in bank_messages(df, ~mostrar_apenas_blocos_com_ativos, today) :
                           SectionParts(other[i], hz_title) = SectionParts(m, hz_title)

\* C21: message building supports both empty-bucket behaviours through a
\* toggle: with the toggle on a section with no record is left out (no title,
\* no placeholder), with it off its title is followed by the placeholder, and
\* sections with records are the same under both settings.
C21_EmptySectionToggle ==
    /\ C21_TwoSheetToggle
    /\ pc = "message" /\ variant = "destaques" /\ mostrar_apenas_blocos_com_ativos =>
          \A k \in 1..3 : msg.sections[k].cards # <<>>


\* the rows of the cards of a sequence of parts, in order
RECURSIVE CardRows(_)
CardRows(parts) ==
    IF parts = <<>> THEN <<>>
    ELSE (IF Head(parts).kind = "card" THEN <<Head(parts).row>> ELSE <<>>) \o CardRows(Tail(parts))

\* the rate of the record of the frame that came from sheet row k
RateOfRow(k) == (CHOOSE r \in {df[j] : j \in 1..Len(df)} : r.row = k).taxa_num

\* the rate of the record of the frame with the issuer e
RateOfIssuer(e) == (CHOOSE r \in {df[j] : j \in 1..Len(df)} : r.emissor = e).taxa_num

TableBlock(idx, hz) == CHOOSE b \in {blocks[k] : k \in 1..9} : b.idx = idx /\ b.hz = hz

\* C30: in the per-indexer messages of the two-sheet scripts each horizon
\* section holds the records of the Top-N table shown for that bucket, in
\* the same order, whatever "Top N por bloco" is set to.
C30_MessageMatchesTable ==
    pc = "message" /\ variant = "destaques3" =>
        \A i \in 1..3, h \in 1..3 :
            LET recs == TableBlock(MsgIndexer[i], hz_pairs[h].hz_label).recs
            IN CardRows(SectionParts(msg[i], hz_pairs[h].hz_title))
                  = [a \in 1..Len(recs) |-> recs[a].row]


\* the percentage a record's taxa_fmt shows, in hundredths of a percent (the
\* rates of these sheets are not negative)
ShownHundredths(r) ==
    DigitsVal(OnlyDigits(format_rate_for_display(r.taxa_num, r.indexador_pad, FALSE)))

\* C26: within every bucket the displayed rates agree with the rank: going
\* down the list top_n_block returns, the percentage format_rate_for_display
\* shows never increases, also when the bucket mixes rates stored as
\* fractions (1.10) and as percents (105).
C26_DisplayedRatesFollowRank ==
    pc \in {"done", "message"} /\ variant # "destques" =>
        \A k \in 1..9 :
            LET recs == blocks[k].recs
            IN \A a \in 1..(Len(recs) - 1) : ShownHundredths(recs[a + 1]) <= ShownHundredths(recs[a])


\* the sheet rows that are in the frame
RowsInFrame == {df[j].row : j \in 1..Len(df)}

\* C24: term_days comes from the term column whenever a term column is
\* resolved, for every row and with no fallback per row (a row whose term
\* cell gives no number has a null term, and is dropped, even if its maturity
\* is a date); only when no term column is resolved is term_days the maturity
\* minus today in days.
C24_TermSource ==
    pc \in {"transformed", "done", "message"} =>
        LET term == to_numeric_series(Column("prazo"))
        IN /\ \A j \in 1..Len(df) :
                 df[j].prazo_dias = IF has_prazo THEN term[df[j].row]
                                    ELSE DaysToMaturity(rows[df[j].row].venc)
           /\ has_prazo => \A i \in 1..Len(rows) : term[i] = None => i \notin RowsInFrame
           /\ ~has_prazo => \A i \in 1..Len(rows) :
                 DaysToMaturity(rows[i].venc) = None => i \notin RowsInFrame

\* with a term column, a row whose term cell is no number and whose maturity
\* is a date is left out, next to a row that took its term from the column
C24_Witness ==
    /\ pc = "transformed"
    /\ has_prazo
    /\ \E i \in 1..Len(rows) :
          /\ to_numeric_series(Column("prazo"))[i] = None
          /\ DaysToMaturity(rows[i].venc) # None
          /\ HorizonOf(variant, DaysToMaturity(rows[i].venc)) # None
          /\ i \notin RowsInFrame
    /\ df # <<>>

\* without a term column the same row is kept, its term counted from today
C24_FallbackUsed ==
    /\ pc = "transformed"
    /\ ~has_prazo
    /\ \E j \in 1..Len(df) : rows[df[j].row].prazo = Text(<<"a", "b", "c">>)


(***************************************************************************)
(* Claims on the placement of records (Spec)                               *)
(***************************************************************************)
\* the buckets whose key a record has
KeysOf(r) ==
    {k \in 1..9 : BucketKey(variant, k).idx = r.indexador_pad
                  /\ BucketKey(variant, k).hz = r.horizonte}

\* the buckets whose block holds a record of sheet row i
ShownIn(i) == {k \in 1..9 : i \in RowsOf(blocks[k].recs)}

\* C25: every surviving record belongs to exactly one of the nine buckets,
\* the one keyed by (classify_indexer(indexer), categorize_horizon(term)), and
\* is shown in no other: no row comes under two bucket labels, and a bucket
\* holding at most n records shows all of them.
C25_OneBucket ==
    pc = "done" =>
        \A j \in 1..Len(df) :
            LET r == df[j]
            IN /\ Cardinality(KeysOf(r)) = 1
               /\ r.indexador_pad = ClassifyOf(variant, rows[r.row].indexador)
               /\ r.horizonte = HorizonOf(variant, r.prazo_dias)
               /\ ShownIn(r.row) \subseteq KeysOf(r)
               /\ \A k \in ShownIn(r.row) :
                     Cardinality({a \in 1..Len(blocks[k].recs) : blocks[k].recs[a].row = r.row}) = 1
               /\ Len(BucketRows(df, r.indexador_pad, r.horizonte)) <= top_n =>
                     ShownIn(r.row) = KeysOf(r)

\* rows {CDI, "115% CDI", 400} and {IPCA, "IPCA+6,50%", 900} of the scenario
\* are the sole entries of (Pos (CDI), Medio) and (IPCA, Medio)
C25_Witness ==
    /\ pc = "done"
    /\ Len(df) = 2
    /\ \E a, b \in 1..9 :
          /\ blocks[a].idx = POS_CDI /\ blocks[a].hz = MEDIO
          /\ Len(blocks[a].recs) = 1 /\ blocks[a].recs[1].emissor = "A"
          /\ blocks[b].idx = IPCA /\ blocks[b].hz = MEDIO
          /\ Len(blocks[b].recs) = 1 /\ blocks[b].recs[1].emissor = "B"
          /\ \A k \in 1..9 \ {a, b} : blocks[k].recs = <<>>


(***************************************************************************)
(* Claims on the sheet reader (SpecReader)                                 *)
(***************************************************************************)
\* the number of blank rows that end at row n with no row of value between
RECURSIVE TrailingBlanks(_)
TrailingBlanks(n) ==
    IF n = 0 \/ ~IsBlankRow(ws[n]) THEN 0 ELSE 1 + TrailingBlanks(n - 1)

\* C27: the blank-row counter is reset to 0 by every row with a value, so
\* that runs of fewer than 20 blank rows never end the ingestion: every row
\* with a value before the first run of 20 blank rows is ingested exactly
\* once, in sheet order, and no blank row is ever ingested.
C27_StreakReset ==
    pc \in {"reading", "returned"} =>
        /\ empty_streak = TrailingBlanks(position)
        /\ data = ValueRows(position)
        /\ \A i \in 1..Len(data) : ~IsBlankRow(data[i])
        /\ \A i, j \in 1..Len(data) : i < j => data[i][1].m < data[j][1].m
        /\ pc = "returned" => position = Len(ws) \/ BlankRunEndsAt(position)
        /\ pc = "reading" => empty_streak < EMPTY_STREAK_LIMIT

\* the reader has read a sheet to its last row, past a run of 18 or 19 blank
\* rows, and has taken a row on each side of it
C27_Witness ==
    /\ pc = "returned"
    /\ ~HasBlankRun
    /\ position = Len(ws)
    /\ \E n \in 1..Len(ws) :
          /\ TrailingBlanks(n) >= EMPTY_STREAK_LIMIT - 2
          /\ n < Len(ws) /\ ~IsBlankRow(ws[n + 1])
          /\ ws[n + 1] \in {data[i] : i \in 1..Len(data)}
          /\ ws[1] \in {data[i] : i \in 1..Len(data)}


(***************************************************************************)
(* Claims on the send (SpecSend)                                           *)
(***************************************************************************)
\* the places of the messages of the package that are not blank
NonBlank == {i \in 1..Len(messages_to_send) : ~IsBlankMessage(messages_to_send[i])}

\* the requests made for message i to group g
PostedFor(g, i) == {k \in 1..Len(posted) : posted[k].phone_or_group = g /\ posted[k].ordem = i}

\* no pair is sent twice, every request is for a group and a non-blank
\* message of the package; at the end every pair has been sent once, every
\* group has its entry, in order, with one result per non-blank message, ok
\* exactly when the send returned
SendRecord ==
    /\ \A k \in 1..Len(posted) :
          /\ posted[k].ordem \in NonBlank
          /\ \E g \in 1..Len(groups_dict) : groups_dict[g] = posted[k].phone_or_group
          /\ Cardinality(PostedFor(posted[k].phone_or_group, posted[k].ordem)) = 1
    /\ Len(all_results) <= Len(groups_dict)
    /\ \A g \in 1..Len(all_results) :
          LET res == all_results[g].resultados
          IN /\ all_results[g].grupo = groups_dict[g]
             /\ {res[a].ordem : a \in 1..Len(res)} = NonBlank
             /\ Len(res) = Cardinality(NonBlank)
             /\ \A a \in 1..Len(res) :
                   \E k \in PostedFor(groups_dict[g], res[a].ordem) :
                      res[a].ok = (posted[k].outcome = "ok")
    /\ pc = "sent" =>
          /\ Len(all_results) = Len(groups_dict)
          /\ \A g \in 1..Len(groups_dict), i \in NonBlank :
                Cardinality(PostedFor(groups_dict[g], i)) = 1

\* C23: in the multi-group send a failure for one destination never blocks
\* or rolls back another: whatever sends and participant lookups fail, every
\* (group, non-blank message) pair is attempted exactly once, each attempt is
\* recorded as ok or failed, and the loop completes with exactly one result
\* entry per configured group.
C23_IndependentSends ==
    [](pc \in {"groups", "messages", "sent"} => SendRecord) /\ <>(pc = "sent")

\* the send is over for two groups: a send to the first group failed, its
\* lookup failed too, and the sends that followed went through
C23_Witness ==
    /\ pc = "sent"
    /\ Len(groups_dict) = 2
    /\ groups_dict[1] \in warnings
    /\ Cardinality(NonBlank) = 2
    /\ all_results[1].resultados[1].ok = FALSE
    /\ all_results[1].resultados[2].ok = TRUE
    /\ \A a \in 1..2 : all_results[2].resultados[a].ok = TRUE

\* C28: participants are mentioned only in the groups selected for mention: a
\* message sent to group g carries a mention list only if mentions are
\* enabled, g is among the selected groups and the lookup for g succeeded;
\* every message is still sent to every configured group, and a failed
\* lookup leads to sending without mentions, not to skipping the group.
C28_MentionsOnlyWhereSelected ==
    pc \in {"groups", "messages", "sent"} =>
        /\ \A k \in 1..Len(posted) :
              posted[k].mentioned # <<>> =>
                 /\ mention_all_enabled
                 /\ posted[k].phone_or_group \in mention_groups
                 /\ posted[k].phone_or_group \notin warnings
        /\ \A k \in 1..Len(posted) :
              posted[k].phone_or_group \in warnings => posted[k].mentioned = <<>>
        /\ pc = "sent" =>
              \A g \in 1..Len(groups_dict), i \in NonBlank : PostedFor(groups_dict[g], i) # {}

\* two groups selected for mention: the lookup worked for one, whose messages
\* carry mentions, and failed for the other, whose messages went without
C28_Witness ==
    /\ pc = "sent"
    /\ Len(groups_dict) = 2
    /\ mention_groups = {groups_dict[1], groups_dict[2]}
    /\ groups_dict[1] \in warnings
    /\ groups_dict[2] \notin warnings
    /\ \E k \in 1..Len(posted) :
          posted[k].phone_or_group = groups_dict[1] /\ posted[k].mentioned = <<>>
    /\ \E k \in 1..Len(posted) :
          posted[k].phone_or_group = groups_dict[2] /\ posted[k].mentioned # <<>>

\* C29: for every value of "Max. mencoes por mensagem" the number of phones
\* mentioned in a sent message never exceeds that value (a setting of 0
\* gives no mention), and the mention list holds no phone twice.
C29_MentionCap ==
    pc \in {"groups", "messages", "sent"} =>
        \A k \in 1..Len(posted) :
            LET ms == posted[k].mentioned
            IN /\ Len(ms) <= max_mentions
               /\ \A a, b \in 1..Len(ms) : a # b => ms[a] # ms[b]

\* the part of C29 that holds: no phone twice, and no more phones than a
\* setting above 0 allows
C29_CapAboveZero ==
    pc \in {"groups", "messages", "sent"} =>
        \A k \in 1..Len(posted) :
            LET ms == posted[k].mentioned
            IN /\ max_mentions > 0 => Len(ms) <= max_mentions
               /\ \A a, b \in 1..Len(ms) : a # b => ms[a] # ms[b]

====
